---- MODULE Spec2Model ----
(***************************************************************************)
(* Model of multi-account-github-mcp: the credential store (config.rs),    *)
(* the gh process gateway (gh.rs) and the MCP tool handlers (server.rs).   *)
(*                                                                         *)
(* Text is modelled as a sequence of chunks (strings); the chunks " ",     *)
(* "\t", "\n" and "\r" are whitespace.  Option<&str> is modelled as a      *)
(* sequence of length 0 (None) or 1 (Some).                                *)
(***************************************************************************)
EXTENDS Integers, Sequences, FiniteSets, TLC

VARIABLES
    config,     \* GhClient.config : Arc<Config>, immutable after load
    fs,         \* the token files, by expanded path
    q,          \* credential store probe: the last resolve and its results
    gw,         \* gateway probe: a process outcome and its classification
    calls,      \* the tool calls of each client: handler position and locals
    installed,  \* environment: an executable named gh is on the search path
    gh,         \* run_serve's result of GhClient::new, None before the call
    ab,         \* argument-builder probe: a request and the vectors built
    env,        \* the environment variables of the server process itself
    probe       \* probe of Config::load, GhClient::version and get_file

vars == <<config, fs, q, gw, calls, installed, gh, ab, env, probe>>

(***************************************************************************)
(* Bounds                                                                  *)
(***************************************************************************)
MaxTokLen == 2      \* longest token-file content enumerated (chunks)
MaxOutLen == 3      \* longest stdout enumerated (chunks)
MaxErrLen == 2      \* longest stderr enumerated (chunks)

(***************************************************************************)
(* Text helpers: str::trim                                                 *)
(***************************************************************************)
IsWhitespace(ch) == ch \in {" ", "\t", "\n", "\r"}

RECURSIVE TrimStart(_)
TrimStart(s) ==
    IF s # <<>> /\ IsWhitespace(Head(s)) THEN TrimStart(Tail(s)) ELSE s

RECURSIVE TrimEnd(_)
TrimEnd(s) ==
    IF s # <<>> /\ IsWhitespace(s[Len(s)])
    THEN TrimEnd(SubSeq(s, 1, Len(s) - 1))
    ELSE s

trim(s) == TrimEnd(TrimStart(s))

\* All texts over alphabet A of length at most n
TextsUpTo(A, n) == UNION {[1..k -> A] : k \in 0..n}

\* s occurs in m as a contiguous run of chunks
Contains(m, s) ==
    \E i \in 0..(Len(m) - Len(s)) : SubSeq(m, i + 1, i + Len(s)) = s

AllWhitespace(s) == \A i \in 1..Len(s) : IsWhitespace(s[i])

\* v is s without its leading and trailing whitespace, stated without trim
IsTrimOf(v, s) ==
    /\ \E i \in 0..Len(s), j \in 0..Len(s) :
          /\ i <= j
          /\ v = SubSeq(s, i + 1, j)
          /\ AllWhitespace(SubSeq(s, 1, i))
          /\ AllWhitespace(SubSeq(s, j + 1, Len(s)))
    /\ v # <<>> => ~IsWhitespace(v[1]) /\ ~IsWhitespace(v[Len(v)])

(***************************************************************************)
(* Result<T, Error> and the Error enum (error.rs)                          *)
(***************************************************************************)
Ok(v) == [ok |-> TRUE, val |-> v]
Err(kind, arg) == [ok |-> FALSE, kind |-> kind, arg |-> arg]

\* Display of Error: the #[error("...")] prefix followed by the payload
ErrorPrefix(kind) ==
    CASE kind = "Config"          -> "Configuration error: "
      [] kind = "AccountNotFound" -> "Account not found: "
      [] kind = "TokenNotFound"   -> "Token file not found: "
      [] kind = "TokenRead"       -> "Token file read error: "
      [] kind = "GhCli"           -> "gh CLI error: "
      [] kind = "JsonParse"       -> "JSON parse error: "
      [] kind = "YamlParse"       -> "YAML parse error: "
      [] kind = "Io"              -> "IO error: "
      [] kind = "Mcp"             -> "MCP error: "
      [] kind = "Tool"            -> "Tool error: "

to_string(e) ==
    IF e.kind = "GhNotFound"
    THEN <<"gh CLI not found. Install from https://cli.github.com">>
    ELSE <<ErrorPrefix(e.kind)>> \o e.arg

(***************************************************************************)
(* Configuration (config.rs)                                               *)
(***************************************************************************)
None == <<>>
Some(x) == <<x>>

HomeDir == "/home/op"
WorkPath == <<"~", "/tokens/work">>         \* "~/tokens/work"
HomePath == <<"/etc/tokens/home">>

\* shellexpand::tilde: a leading "~" becomes the home directory
tilde(p) ==
    IF p # <<>> /\ Head(p) = "~" THEN <<HomeDir>> \o Tail(p) ELSE p

AccountKeys == {"work", "home"}
AccountNames == AccountKeys \cup {"Work", "default", "missing"}
TokenPaths == {WorkPath, HomePath}
FsPaths == {tilde(p) : p \in TokenPaths}

\* Config { default_account, accounts }
Configs ==
    { [default_account |-> d, accounts |-> m] :
        d \in {"work", "home", "default"},
        m \in UNION {[S -> TokenPaths] : S \in SUBSET AccountKeys} }

\* Config::default()
DefaultConfig == [default_account |-> "default", accounts |-> <<>>]

\* a token file: absent, present but unreadable, or present with content
NoFile == [exists |-> FALSE, readable |-> FALSE, content |-> <<>>]
Unreadable == [exists |-> TRUE, readable |-> FALSE, content |-> <<>>]
File(c) == [exists |-> TRUE, readable |-> TRUE, content |-> c]

TokenChunks == {" ", "\n", "ghp_abcdef"}
FileStates(contents) == {NoFile, Unreadable} \cup {File(c) : c \in contents}

\* faulty variant: an unknown name silently falls back to the default account
get_token_path_fallback(cfg, name) ==
    LET account_name == IF name = None THEN cfg.default_account ELSE name[1]
    IN  IF account_name \in DOMAIN cfg.accounts
        THEN Ok(cfg.accounts[account_name])
        ELSE IF cfg.default_account \in DOMAIN cfg.accounts
             THEN Ok(cfg.accounts[cfg.default_account])
             ELSE Err("AccountNotFound", <<account_name>>)

\* faulty variant: an omitted name means the literal "default"
get_token_path_literal_default(cfg, name) ==
    LET account_name == IF name = None THEN "default" ELSE name[1]
    IN  IF account_name \in DOMAIN cfg.accounts
        THEN Ok(cfg.accounts[account_name])
        ELSE Err("AccountNotFound", <<account_name>>)

\* Config::get_token_path: name.unwrap_or(&self.default_account), then the
\* lookup in the accounts map
get_token_path(cfg, name) ==
    LET account_name == IF name = None THEN cfg.default_account ELSE name[1]
    IN  IF account_name \in DOMAIN cfg.accounts
        THEN Ok(cfg.accounts[account_name])
        ELSE Err("AccountNotFound", <<account_name>>)

\* faulty variant: the file content is returned as read
get_token_untrimmed(cfg, account, fsys) ==
    LET tp == get_token_path(cfg, account) IN
    IF ~tp.ok THEN tp
    ELSE LET path == tilde(tp.val) IN
         IF ~fsys[path].exists THEN Err("TokenNotFound", path)
         ELSE IF ~fsys[path].readable
         THEN Err("TokenRead", path \o <<": ", "Permission denied">>)
         ELSE Ok(fsys[path].content)

\* Config::get_token
get_token(cfg, account, fsys) ==
    LET tp == get_token_path(cfg, account) IN
    IF ~tp.ok THEN tp
    ELSE LET path == tilde(tp.val) IN
         IF ~fsys[path].exists THEN Err("TokenNotFound", path)
         ELSE IF ~fsys[path].readable
         THEN Err("TokenRead", path \o <<": ", "Permission denied">>)
         ELSE LET token == trim(fsys[path].content) IN
              IF token = <<>>
              THEN Err("TokenRead", <<"Token file is empty: ">> \o path)
              ELSE Ok(token)

(***************************************************************************)
(* serde_json::Value and serde_json::from_str over chunked text.  A chunk  *)
(* is one JSON token: punctuation, a scalar literal or a string literal.   *)
(***************************************************************************)
JNull == [t |-> "null", v |-> 0]
JNum(n) == [t |-> "num", v |-> n]
JStr(x) == [t |-> "str", v |-> x]
JArr(items) == [t |-> "arr", v |-> items]
JObj(members) == [t |-> "obj", v |-> members]

\* string literal tokens and the strings they denote
JsonStrings == {"object", "sha", "abc123", "default_branch", "develop", "login"}
Quote(x) ==
    CASE x = "object"         -> "\"object\""
      [] x = "sha"            -> "\"sha\""
      [] x = "abc123"         -> "\"abc123\""
      [] x = "default_branch" -> "\"default_branch\""
      [] x = "develop"        -> "\"develop\""
      [] x = "login"          -> "\"login\""
JsonStringTokens == {Quote(x) : x \in JsonStrings}
Unquote(tok) == CHOOSE x \in JsonStrings : Quote(x) = tok

POk(v, rest) == [ok |-> TRUE, val |-> v, rest |-> rest]
PErr(msg) == [ok |-> FALSE, msg |-> msg]

RECURSIVE parse_value(_), parse_elems(_, _), parse_members(_, _)

parse_value(s0) ==
    LET s == TrimStart(s0) IN
    IF s = <<>> THEN PErr("EOF while parsing a value")
    ELSE LET h == Head(s) IN
         IF h = "null" THEN POk(JNull, Tail(s))
         ELSE IF h = "1" THEN POk(JNum(1), Tail(s))
         ELSE IF h \in JsonStringTokens THEN POk(JStr(Unquote(h)), Tail(s))
         ELSE IF h = "[" THEN
              LET r == TrimStart(Tail(s)) IN
              IF r # <<>> /\ Head(r) = "]"
              THEN POk(JArr(<<>>), Tail(r))
              ELSE parse_elems(r, <<>>)
         ELSE IF h = "{" THEN
              LET r == TrimStart(Tail(s)) IN
              IF r # <<>> /\ Head(r) = "}"
              THEN POk(JObj(<<>>), Tail(r))
              ELSE parse_members(r, <<>>)
         ELSE PErr("expected value")

parse_elems(s, acc) ==
    LET e == parse_value(s) IN
    IF ~e.ok THEN e
    ELSE LET r == TrimStart(e.rest) IN
         IF r = <<>> THEN PErr("EOF while parsing a list")
         ELSE IF Head(r) = "," THEN parse_elems(Tail(r), Append(acc, e.val))
         ELSE IF Head(r) = "]" THEN POk(JArr(Append(acc, e.val)), Tail(r))
         ELSE PErr("expected , or ]")

parse_members(s, acc) ==
    LET r0 == TrimStart(s) IN
    IF r0 = <<>> THEN PErr("EOF while parsing an object")
    ELSE IF Head(r0) \notin JsonStringTokens THEN PErr("key must be a string")
    ELSE LET r1 == TrimStart(Tail(r0)) IN
         IF r1 = <<>> THEN PErr("EOF while parsing an object")
         ELSE IF Head(r1) # ":" THEN PErr("expected :")
         ELSE LET m == parse_value(Tail(r1)) IN
              IF ~m.ok THEN m
              ELSE LET r2 == TrimStart(m.rest)
                       members == (Unquote(Head(r0)) :> m.val) @@ acc
                   IN  IF r2 = <<>> THEN PErr("EOF while parsing an object")
                       ELSE IF Head(r2) = "," THEN parse_members(Tail(r2), members)
                       ELSE IF Head(r2) = "}" THEN POk(JObj(members), Tail(r2))
                       ELSE PErr("expected , or }")

\* serde_json::from_str: one value, then only whitespace
from_str(s) ==
    LET r == parse_value(s) IN
    IF ~r.ok THEN r
    ELSE IF TrimStart(r.rest) # <<>> THEN PErr("trailing characters")
    ELSE r

\* Value indexing (value[key]) and Value::as_str
Index(val, key) ==
    IF val.t = "obj" /\ key \in DOMAIN val.v THEN val.v[key] ELSE JNull
as_str(val) == IF val.t = "str" THEN Some(val.v) ELSE None
unwrap_or(opt, dflt) == IF opt = None THEN dflt ELSE opt[1]

(***************************************************************************)
(* Process gateway (gh.rs): classification of a finished gh process        *)
(***************************************************************************)
\* ExitStatus::success
success(status) == status = 0

\* faulty variant: trims before choosing between stderr and stdout
error_msg_trim_first(stdout, stderr) ==
    IF trim(stderr) = <<>> THEN trim(stdout) ELSE trim(stderr)

\* the message of the error built from a failed process (gh.rs:63-66)
error_msg(stdout, stderr) ==
    trim(IF stderr = <<>> THEN stdout ELSE stderr)

\* faulty variant: no early return for empty output
run_output_parse_always(status, stdout, stderr) ==
    IF ~success(status)
    THEN [result |-> Err("GhCli", error_msg(stdout, stderr)), parsed |-> FALSE]
    ELSE LET json == from_str(stdout) IN
         IF json.ok
         THEN [result |-> Ok(json.val), parsed |-> TRUE]
         ELSE [result |->
                  Err("GhCli", <<"Failed to parse gh output as JSON: ",
                                 json.msg, "\nOutput: ">> \o stdout),
               parsed |-> TRUE]

\* GhClient::run from the process output on; `parsed` records whether
\* serde_json::from_str was called
run_output(status, stdout, stderr) ==
    IF ~success(status)
    THEN [result |-> Err("GhCli", error_msg(stdout, stderr)), parsed |-> FALSE]
    ELSE IF trim(stdout) = <<>>
    THEN [result |-> Ok(JNull), parsed |-> FALSE]
    ELSE LET json == from_str(stdout) IN
         IF json.ok
         THEN [result |-> Ok(json.val), parsed |-> TRUE]
         ELSE [result |->
                  Err("GhCli", <<"Failed to parse gh output as JSON: ",
                                 json.msg, "\nOutput: ">> \o stdout),
               parsed |-> TRUE]

\* GhClient::run_raw from the process output on
run_raw_output(status, stdout, stderr) ==
    IF ~success(status)
    THEN [result |-> Err("GhCli", error_msg(stdout, stderr)), parsed |-> FALSE]
    ELSE [result |-> Ok(stdout), parsed |-> FALSE]

\* faulty variant: the client is built without looking for the executable
new_unchecked(cfg, on_path) == Ok([config |-> cfg])

\* GhClient::new: which::which("gh").is_err() is Err(Error::GhNotFound)
new(cfg, on_path) ==
    IF ~on_path THEN Err("GhNotFound", <<>>) ELSE Ok([config |-> cfg])

(***************************************************************************)
(* MCP tool handlers (mcp/server.rs)                                       *)
(***************************************************************************)
Clients == {1, 2}

\* CallToolResult::success(Content::json), CallToolResult::success(
\* Content::text) and Err(McpError::internal_error(message))
NoResponse == [shape |-> "none", kind |-> "none", json |-> JNull, text |-> <<>>]
SuccessJson(val) == [shape |-> "success", kind |-> "json", json |-> val, text |-> <<>>]
SuccessText(t) == [shape |-> "success", kind |-> "text", json |-> JNull, text |-> t]
err(e) == [shape |-> "error", kind |-> "internal_error", json |-> JNull,
           text |-> to_string(e)]

NoProc == [alive |-> FALSE, GH_TOKEN |-> <<>>, NO_COLOR |-> <<>>, args |-> <<>>]

IdleCall ==
    [pc |-> "idle", op |-> "none", account |-> None, arg |-> None,
     step |-> "none", token |-> <<>>, value |-> <<>>, last |-> None,
     out |-> None, proc |-> NoProc, spawned |-> 0, prior |-> FALSE, resp |-> NoResponse]

NoCalls == [c \in Clients |-> IdleCall]

\* request parameters that are the same in every call of the model
Owner == "octo"
Repo == "hello"
BranchName == "feature"
TagName == "v1"
FilePath == "README.md"
PrNumber == 7

Txt(x) == <<x>>

\* faulty variant: the method flag is pushed even when no method is given
api_args_always_method(endpoint, method, fields) ==
    LET field_args == [i \in 1..Len(fields) |-> fields[i][1] \o Txt("=") \o fields[i][2]]
        RECURSIVE field_refs(_)
        field_refs(i) ==
            IF i > Len(field_args) THEN <<>>
            ELSE <<Txt("-f"), field_args[i]>> \o field_refs(i + 1)
    IN  <<Txt("api")>>
        \o <<Txt("-X"), Txt(unwrap_or(method, "GET"))>>
        \o <<endpoint>>
        \o field_refs(1)

\* GhClient::api: the argument vector handed to run
api_args(endpoint, method, fields) ==
    LET field_args == [i \in 1..Len(fields) |-> fields[i][1] \o Txt("=") \o fields[i][2]]
        RECURSIVE field_refs(_)
        field_refs(i) ==
            IF i > Len(field_args) THEN <<>>
            ELSE <<Txt("-f"), field_args[i]>> \o field_refs(i + 1)
    IN  <<Txt("api")>>
        \o (IF method = None THEN <<>> ELSE <<Txt("-X"), Txt(method[1])>>)
        \o <<endpoint>>
        \o field_refs(1)

\* the gateway entry point of the current invocation: every handler goes
\* through run (directly or via api); op "run_raw" is a direct call of the
\* public GhClient::run_raw, whose return value is kept in `last`
Mode(call) == IF call.op = "run_raw" THEN "raw" ELSE "structured"

\* first invocation of each handler
FirstStep(op, arg) ==
    CASE op = "create_branch" -> "lookup"
      [] op = "create_tag" /\ arg = None -> "repo_info"
      [] OTHER -> "final"

\* create_branch: params.0.from.as_deref().unwrap_or("HEAD")
source(call) == unwrap_or(call.arg, "HEAD")

\* the argument vector of the handler's current invocation
ArgsOf(call) ==
    LET repo_endpoint == <<"repos/", Owner, "/", Repo>> IN
    CASE call.op = "get_me" -> <<Txt("api"), Txt("user")>>
      [] call.op = "run_raw" -> <<Txt("pr"), Txt("diff"), Txt("1")>>
      [] call.op = "get_pr_diff" ->
            <<Txt("pr"), Txt("diff"), Txt(ToString(PrNumber)),
              Txt("--repo"), <<Owner, "/", Repo>> >>
      [] call.op = "set_branch_protection" ->
            <<Txt("api"), Txt("-X"), Txt("PUT"),
              repo_endpoint \o <<"/branches/", BranchName, "/protection">>,
              Txt("-H"), Txt("Accept: application/vnd.github+json"),
              Txt("-f"), <<"enforce_admins=", "false">> >>
      [] call.op = "get_file" ->
            api_args(repo_endpoint \o <<"/contents/", FilePath>>
                        \o (IF call.arg = None THEN <<>>
                            ELSE <<"?ref=", call.arg[1]>>),
                     None, <<>>)
      [] call.op = "delete_branch" ->
            api_args(repo_endpoint \o <<"/git/refs/heads/", BranchName>>,
                     Some("DELETE"), <<>>)
      [] call.op = "delete_tag" ->
            api_args(repo_endpoint \o <<"/git/refs/tags/", TagName>>,
                     Some("DELETE"), <<>>)
      [] call.op = "delete_branch_protection" ->
            api_args(repo_endpoint \o <<"/branches/", BranchName, "/protection">>,
                     Some("DELETE"), <<>>)
      [] call.op = "delete_release" ->
            <<Txt("release"), Txt("delete"), Txt(TagName), Txt("--repo"),
              <<Owner, "/", Repo>>, Txt("--yes")>>
            \o (IF unwrap_or(call.arg, FALSE) THEN <<Txt("--cleanup-tag")>>
                ELSE <<>>)
      [] call.op = "create_branch" /\ call.step = "lookup" ->
            api_args(repo_endpoint \o <<"/git/ref/heads/", source(call)>>, None, <<>>)
      [] call.op = "create_branch" /\ call.step = "final" ->
            <<Txt("api"), Txt("-X"), Txt("POST"), repo_endpoint \o Txt("/git/refs"),
              Txt("-f"), <<"ref=", "refs/heads/", BranchName>>,
              Txt("-f"), <<"sha=">> \o call.value>>
      [] call.op = "create_tag" /\ call.step = "repo_info" ->
            api_args(repo_endpoint, None, <<>>)
      [] call.op = "create_tag" /\ call.step = "ref_info" ->
            api_args(repo_endpoint \o <<"/git/ref/heads/">> \o call.value, None, <<>>)
      [] call.op = "create_tag" /\ call.step = "final" ->
            <<Txt("api"), Txt("-X"), Txt("POST"), repo_endpoint \o Txt("/git/refs"),
              Txt("-f"), <<"ref=", "refs/tags/", TagName>>,
              Txt("-f"), <<"sha=">> \o call.value>>

\* the handler finishes with a response
Respond(call, response) ==
    [call EXCEPT !.pc = "done", !.resp = response, !.token = <<>>]

\* the handler goes on to its next invocation with local `value`
NextInvocation(call, step, value) ==
    [call EXCEPT !.pc = "resolve", !.step = step, !.value = value, !.token = <<>>]

protection_note ==
    "Branch protection update attempted. Note: Full protection settings may require direct API access. Error details: "

\* faulty variant: an error of the invocation is reported inside a
\* success-shaped response
MapErr_swallow(call, result) ==
    IF result.ok THEN Respond(call, SuccessJson(result.val))
    ELSE Respond(call, SuccessText(to_string(result)))

\* faulty variant: the error message quotes the token the process was given
MapErr_leaks(call, result) ==
    IF result.ok THEN Respond(call, SuccessJson(result.val))
    ELSE Respond(call, [err(result) EXCEPT
                           !.text = @ \o <<" (token ">> \o call.proc.GH_TOKEN \o <<")">>])

\* faulty variant: a failed invocation is issued once more
MapErr_retry(call, result) ==
    IF result.ok THEN Respond(call, SuccessJson(result.val))
    ELSE IF call.spawned < 2 /\ call.proc.GH_TOKEN # <<>>
    THEN NextInvocation(call, call.step, call.value)
    ELSE Respond(call, err(result))

\* .map_err(Self::err)? followed by CallToolResult::success(Content::json)
MapErr(call, result) ==
    IF result.ok THEN Respond(call, SuccessJson(result.val))
    ELSE Respond(call, err(result))

(***************************************************************************)
(* get_file: base64 (STANDARD engine: padded, canonical) and UTF-8.  File  *)
(* content is a sequence of characters, decoded text a sequence of bytes.  *)
(***************************************************************************)
Alphabet ==
    <<"A", "B", "C", "D", "E", "F", "G", "H", "I", "J", "K", "L", "M",
      "N", "O", "P", "Q", "R", "S", "T", "U", "V", "W", "X", "Y", "Z",
      "a", "b", "c", "d", "e", "f", "g", "h", "i", "j", "k", "l", "m",
      "n", "o", "p", "q", "r", "s", "t", "u", "v", "w", "x", "y", "z",
      "0", "1", "2", "3", "4", "5", "6", "7", "8", "9", "+", "/">>

IsSymbol(ch) == \E i \in 1..Len(Alphabet) : Alphabet[i] = ch
Sextet(ch) == (CHOOSE i \in 1..Len(Alphabet) : Alphabet[i] = ch) - 1

\* base64::Engine::decode(&STANDARD, input)
RECURSIVE decode(_)
decode(input) ==
    IF input = <<>> THEN Ok(<<>>)
    ELSE IF Len(input) < 4 THEN Err("Base64", <<"invalid length or padding">>)
    ELSE
      LET g == SubSeq(input, 1, 4)
          rest == SubSeq(input, 5, Len(input))
          quantum(a, b, c, d) == a * 262144 + b * 4096 + c * 64 + d
      IN
      IF \A i \in 1..4 : IsSymbol(g[i])
      THEN LET n == quantum(Sextet(g[1]), Sextet(g[2]), Sextet(g[3]), Sextet(g[4]))
               more == decode(rest)
           IN  IF more.ok
               THEN Ok(<<n \div 65536, (n \div 256) % 256, n % 256>> \o more.val)
               ELSE more
      ELSE IF rest # <<>> THEN Err("Base64", <<"invalid byte">>)
      ELSE IF IsSymbol(g[1]) /\ IsSymbol(g[2]) /\ IsSymbol(g[3]) /\ g[4] = "="
      THEN IF Sextet(g[3]) % 4 # 0 THEN Err("Base64", <<"invalid last symbol">>)
           ELSE LET n == quantum(Sextet(g[1]), Sextet(g[2]), Sextet(g[3]), 0) IN
                Ok(<<n \div 65536, (n \div 256) % 256>>)
      ELSE IF IsSymbol(g[1]) /\ IsSymbol(g[2]) /\ g[3] = "=" /\ g[4] = "="
      THEN IF Sextet(g[2]) % 16 # 0 THEN Err("Base64", <<"invalid last symbol">>)
           ELSE Ok(<<quantum(Sextet(g[1]), Sextet(g[2]), 0, 0) \div 65536>>)
      ELSE Err("Base64", <<"invalid byte">>)

\* String::from_utf8(bytes): well-formed UTF-8 byte sequences only
RECURSIVE from_utf8(_)
from_utf8(bytes) ==
    LET cont(i, lo, hi) == i <= Len(bytes) /\ bytes[i] >= lo /\ bytes[i] <= hi
        b == bytes[1]
        width ==
            CASE b <= 127 -> 1
              [] b >= 194 /\ b <= 223 /\ cont(2, 128, 191) -> 2
              [] b = 224 /\ cont(2, 160, 191) /\ cont(3, 128, 191) -> 3
              [] b >= 225 /\ b <= 236 /\ cont(2, 128, 191) /\ cont(3, 128, 191) -> 3
              [] b = 237 /\ cont(2, 128, 159) /\ cont(3, 128, 191) -> 3
              [] b >= 238 /\ b <= 239 /\ cont(2, 128, 191) /\ cont(3, 128, 191) -> 3
              [] b = 240 /\ cont(2, 144, 191) /\ cont(3, 128, 191)
                    /\ cont(4, 128, 191) -> 4
              [] b >= 241 /\ b <= 243 /\ cont(2, 128, 191) /\ cont(3, 128, 191)
                    /\ cont(4, 128, 191) -> 4
              [] b = 244 /\ cont(2, 128, 143) /\ cont(3, 128, 191)
                    /\ cont(4, 128, 191) -> 4
              [] OTHER -> 0
    IN  IF bytes = <<>> THEN Ok(<<>>)
        ELSE IF width = 0 THEN Err("Utf8", <<"invalid utf-8 sequence">>)
        ELSE LET more == from_utf8(SubSeq(bytes, width + 1, Len(bytes))) IN
             IF more.ok THEN Ok(bytes) ELSE more

\* faulty variant: the line feeds are left in
replace_newlines_kept(content) == content

\* content.replace('\n', "")
replace_newlines(content) == SelectSeq(content, LAMBDA ch : ch # "\n")

\* get_file after the await: decoded text when result["content"] is a
\* string of base64 of UTF-8, the structured result otherwise
get_file_match(call, result) ==
    IF ~result.ok THEN Respond(call, err(result))
    ELSE
      LET content == as_str(Index(result.val, "content")) IN
      IF content = None THEN Respond(call, SuccessJson(result.val))
      ELSE LET bytes == decode(replace_newlines(content[1])) IN
           IF bytes.ok /\ from_utf8(bytes.val).ok
           THEN Respond(call, SuccessText(from_utf8(bytes.val).val))
           ELSE Respond(call, SuccessJson(result.val))

\* faulty variant: the error of the invocation fails the call
set_branch_protection_match_strict(call, result) ==
    IF result.ok THEN Respond(call, SuccessJson(result.val))
    ELSE Respond(call, err(result))

\* set_branch_protection: match result { Ok(r) => success(json(r)),
\* Err(e) => success(text(note + e)) }
set_branch_protection_match(call, result) ==
    IF result.ok THEN Respond(call, SuccessJson(result.val))
    ELSE Respond(call, SuccessText(<<protection_note>> \o to_string(result)))

\* faulty variant: a failed lookup ends the call with the lookup's error
create_branch_lookup_aborts(call, result) ==
    IF result.ok
    THEN NextInvocation(call, "final",
            Txt(unwrap_or(as_str(Index(Index(result.val, "object"), "sha")),
                          source(call))))
    ELSE Respond(call, err(result))

\* create_branch: let sha = match self.gh.api(lookup).await { Ok(result) =>
\* result["object"]["sha"].as_str().unwrap_or(source), Err(_) => source }
create_branch_lookup(call, result) ==
    NextInvocation(call, "final",
        IF result.ok
        THEN Txt(unwrap_or(as_str(Index(Index(result.val, "object"), "sha")),
                           source(call)))
        ELSE Txt(source(call)))

\* faulty variant: a failed repository lookup falls back to the literal
\* branch name "main"
create_tag_repo_info_falls_back(call, result) ==
    NextInvocation(call, "ref_info",
        IF result.ok
        THEN Txt(unwrap_or(as_str(Index(result.val, "default_branch")), "main"))
        ELSE Txt("main"))

\* create_tag, sha unset: let repo_info = self.gh.api(..).await
\* .map_err(Self::err)?; default_branch = repo_info["default_branch"]
\* .as_str().unwrap_or("main")
create_tag_repo_info(call, result) ==
    IF ~result.ok THEN Respond(call, err(result))
    ELSE NextInvocation(call, "ref_info",
            Txt(unwrap_or(as_str(Index(result.val, "default_branch")), "main")))

\* create_tag, sha unset: let ref_info = self.gh.api(..).await
\* .map_err(Self::err)?; ref_info["object"]["sha"].as_str().unwrap_or("")
create_tag_ref_info(call, result) ==
    IF ~result.ok THEN Respond(call, err(result))
    ELSE LET sha == as_str(Index(Index(result.val, "object"), "sha")) IN
         NextInvocation(call, "final", IF sha = None THEN <<>> ELSE Txt(sha[1]))

\* The handler's code from the return of its current invocation (`result`)
\* up to its next invocation or its response
Handle(call0, result) ==
    LET call == [call0 EXCEPT !.last = Some(result)] IN
    CASE call.op = "get_me" -> MapErr(call, result)
      [] call.op = "run_raw" -> Respond(call, NoResponse)
      [] call.op = "get_pr_diff" ->
            IF ~result.ok THEN Respond(call, err(result))
            ELSE LET s == as_str(result.val) IN
                 Respond(call, SuccessText(IF s = None THEN <<>> ELSE Txt(s[1])))
      [] call.op = "set_branch_protection" ->
            set_branch_protection_match(call, result)
      [] call.op = "delete_branch" ->
            IF ~result.ok THEN Respond(call, err(result))
            ELSE Respond(call, SuccessText(
                    <<"Branch '", BranchName, "' deleted successfully">>))
      [] call.op = "delete_tag" ->
            IF ~result.ok THEN Respond(call, err(result))
            ELSE Respond(call, SuccessText(
                    <<"Tag '", TagName, "' deleted successfully">>))
      [] call.op = "delete_branch_protection" ->
            IF ~result.ok THEN Respond(call, err(result))
            ELSE Respond(call, SuccessText(
                    <<"Branch protection removed from '", BranchName, "'">>))
      [] call.op = "delete_release" -> MapErr(call, result)
      [] call.op = "get_file" -> get_file_match(call, result)
      [] call.op = "create_branch" /\ call.step = "lookup" ->
            create_branch_lookup(call, result)
      [] call.op = "create_branch" /\ call.step = "final" -> MapErr(call, result)
      [] call.op = "create_tag" /\ call.step = "repo_info" ->
            create_tag_repo_info(call, result)
      [] call.op = "create_tag" /\ call.step = "ref_info" ->
            create_tag_ref_info(call, result)
      [] call.op = "create_tag" /\ call.step = "final" -> MapErr(call, result)

(***************************************************************************)
(* Credential store specification: every configuration and every state of  *)
(* the token files, probed with every account argument                     *)
(***************************************************************************)
AccountArgs == {None} \cup {Some(n) : n \in AccountNames}
NoProbe == [asked |-> FALSE]
NoGw == [classified |-> FALSE]
NoBuild == [built |-> FALSE]
NoProbing == [kind |-> "none"]

\* the server is started without GH_TOKEN of its own
ParentEnv == [GH_TOKEN |-> None]

InitCred ==
    /\ config \in Configs
    /\ fs \in [FsPaths -> FileStates(TextsUpTo(TokenChunks, MaxTokLen))]
    /\ q = NoProbe
    /\ gw = NoGw
    /\ calls = NoCalls
    /\ installed = TRUE
    /\ gh = Some(new(config, installed))
    /\ ab = NoBuild
    /\ env = ParentEnv
    /\ probe = NoProbing

Probe(account) ==
    /\ ~q.asked
    /\ q' = [asked |-> TRUE,
             account |-> account,
             path |-> get_token_path(config, account),
             token |-> get_token(config, account, fs)]
    /\ UNCHANGED <<config, fs, gw, calls, installed, gh, ab, env, probe>>

NextCred == \E account \in AccountArgs : Probe(account)

SpecCred == InitCred /\ [][NextCred]_vars

(***************************************************************************)
(* Gateway classification specification: every exit status, stdout and     *)
(* stderr within the bounds, classified by run and by run_raw              *)
(***************************************************************************)
ExitCodes == {0, 1}
OutChunks == {" ", "\n", "1", "[", "]", "x"}
ErrChunks == {" ", "\n", "boom"}

\* {"object": {"sha": "abc123"}}, as gh prints it
RefJson == <<"{", Quote("object"), ":", " ", "{", Quote("sha"), ":", " ",
             Quote("abc123"), "}", "}", "\n">>
\* {"default_branch": "develop"}
RepoJson == <<"{", Quote("default_branch"), ":", Quote("develop"), "}">>
\* {"login": 1}
UserJson == <<"{", Quote("login"), ":", "1", "}", "\n">>

Stdouts == TextsUpTo(OutChunks, MaxOutLen) \cup {RefJson, RepoJson, UserJson}
Stderrs == TextsUpTo(ErrChunks, MaxErrLen)

EmptyFs == [p \in FsPaths |-> NoFile]

InitGw ==
    /\ config = DefaultConfig
    /\ fs = EmptyFs
    /\ q = NoProbe
    /\ calls = NoCalls
    /\ installed = TRUE
    /\ gh = Some(new(config, installed))
    /\ ab = NoBuild
    /\ env = ParentEnv
    /\ probe = NoProbing
    /\ gw \in { [classified |-> FALSE, status |-> st, stdout |-> out, stderr |-> e] :
                   st \in ExitCodes, out \in Stdouts, e \in Stderrs }

Classify ==
    /\ ~gw.classified
    /\ LET r == run_output(gw.status, gw.stdout, gw.stderr) IN
       gw' = [classified |-> TRUE, mode |-> "structured",
              status |-> gw.status, stdout |-> gw.stdout, stderr |-> gw.stderr,
              result |-> r.result, parsed |-> r.parsed]
    /\ UNCHANGED <<config, fs, q, calls, installed, gh, ab, env, probe>>

ClassifyRaw ==
    /\ ~gw.classified
    /\ LET r == run_raw_output(gw.status, gw.stdout, gw.stderr) IN
       gw' = [classified |-> TRUE, mode |-> "raw",
              status |-> gw.status, stdout |-> gw.stdout, stderr |-> gw.stderr,
              result |-> r.result, parsed |-> r.parsed]
    /\ UNCHANGED <<config, fs, q, calls, installed, gh, ab, env, probe>>

NextGw == Classify \/ ClassifyRaw

SpecGw == InitGw /\ [][NextGw]_vars

(***************************************************************************)
(* The server: clients issue tool calls, each handler runs its gateway     *)
(* invocations (resolve, spawn, wait), gh processes exit, and the operator *)
(* rewrites or removes token files at any moment                           *)
(***************************************************************************)
MainConfig ==
    [default_account |-> "work",
     accounts |-> [a \in AccountKeys |-> IF a = "work" THEN WorkPath ELSE HomePath]]

StartupFs ==
    [p \in FsPaths |->
        IF p = tilde(WorkPath) THEN File(<<"ghp_abcdef", "\n">>)
        ELSE File(<<" ", "ghp_home">>)]

\* what the operator may leave in each token file
OperatorFiles(p) ==
    IF p = tilde(WorkPath)
    THEN {File(<<"ghp_abcdef", "\n">>), File(<<"ghp_rotated">>), File(<<"\n">>), NoFile}
    ELSE {File(<<" ", "ghp_home">>), NoFile}

\* the requests each client may send
Requests(c) ==
    IF c = 1
    THEN { [op |-> o, account |-> a, arg |-> x] :
              o \in {"get_me", "run_raw", "set_branch_protection", "get_pr_diff"},
              a \in {None, Some("work"), Some("home"), Some("missing")},
              x \in {None} }
         \cup
         { [op |-> "create_branch", account |-> a, arg |-> x] :
              a \in {None, Some("work"), Some("home"), Some("missing")},
              x \in {None, Some("develop")} }
         \cup
         { [op |-> "create_tag", account |-> a, arg |-> x] :
              a \in {None, Some("work"), Some("home"), Some("missing")},
              x \in {None, Some("abc123")} }
    ELSE { [op |-> "get_me", account |-> a, arg |-> None] :
              a \in {Some("work"), Some("home")} }

\* what a gh process may print and exit with
GhOutcomes ==
    { [status |-> 0, stdout |-> RefJson, stderr |-> <<>>],
      [status |-> 0, stdout |-> RepoJson, stderr |-> <<>>],
      [status |-> 0, stdout |-> <<"\n">>, stderr |-> <<>>],
      [status |-> 0, stdout |-> <<"x">>, stderr |-> <<>>],
      [status |-> 1, stdout |-> <<>>, stderr |-> <<"boom", "\n">>] }

\* main has loaded the configuration and is about to call run_serve
Init ==
    /\ config = MainConfig
    /\ fs = StartupFs
    /\ q = NoProbe
    /\ gw = NoGw
    /\ calls = NoCalls
    /\ installed \in BOOLEAN
    /\ gh = None
    /\ ab = NoBuild
    /\ env = ParentEnv
    /\ probe = NoProbing

\* run_serve: GhClient::new(config)?; on Ok the server is created and
\* serves, on Err the process ends
run_serve ==
    /\ gh = None
    /\ gh' = Some(new(config, installed))
    /\ UNCHANGED <<config, fs, q, gw, calls, installed, ab, env, probe>>

\* the server (and with it the client) exists and takes requests
Serving == gh # None /\ gh[1].ok

\* the account a call selects
EffectiveName(call) ==
    IF call.account = None THEN config.default_account ELSE call.account[1]

\* a client sends a tools/call request and the handler starts
Start(c, req) ==
    /\ Serving
    /\ calls[c].pc = "idle"
    /\ calls' = [calls EXCEPT ![c] =
          [IdleCall EXCEPT
              !.pc = "resolve", !.op = req.op, !.account = req.account,
              !.arg = req.arg, !.step = FirstStep(req.op, req.arg),
              !.value = IF req.op = "create_tag" /\ req.arg # None
                        THEN Txt(req.arg[1]) ELSE <<>>]]
    /\ UNCHANGED <<config, fs, q, gw, installed, gh, ab, env, probe>>

\* history: another call for the same account has already completed an
\* invocation that had a token injected
PriorSuccess(c) ==
    \E d \in Clients \ {c} :
        /\ calls[d].pc = "done"
        /\ calls[d].proc.GH_TOKEN # <<>>
        /\ EffectiveName(calls[d]) = EffectiveName(calls[c])

\* faulty variant: a failed resolve goes on to spawn with a placeholder token
RunResolve_anonymous(c) ==
    /\ calls[c].pc = "resolve"
    /\ LET r == get_token(config, calls[c].account, fs) IN
       calls' = [calls EXCEPT ![c] =
          [@ EXCEPT !.pc = "spawn", !.prior = PriorSuccess(c), !.last = None,
                    !.out = None,
                    !.token = IF r.ok THEN r.val ELSE <<"anonymous">>]]
    /\ UNCHANGED <<config, fs, q, gw, installed, gh, ab, env, probe>>

\* faulty variant: always resolves the default account
RunResolve_ignores_account(c) ==
    /\ calls[c].pc = "resolve"
    /\ LET r == get_token(config, None, fs) IN
       calls' = [calls EXCEPT ![c] =
          IF r.ok
          THEN [@ EXCEPT !.pc = "spawn", !.token = r.val, !.last = None,
                         !.out = None, !.prior = PriorSuccess(c)]
          ELSE Handle([@ EXCEPT !.prior = PriorSuccess(c), !.out = None], r)]
    /\ UNCHANGED <<config, fs, q, gw, installed, gh, ab, env, probe>>

\* faulty variant: reuses a token another call obtained for the same account
RunResolve_cached(c) ==
    /\ calls[c].pc = "resolve"
    /\ LET r == get_token(config, calls[c].account, fs)
           cache == {d \in Clients \ {c} :
                        /\ calls[d].proc.GH_TOKEN # <<>>
                        /\ EffectiveName(calls[d]) = EffectiveName(calls[c])}
       IN  calls' = [calls EXCEPT ![c] =
              IF cache # {}
              THEN [@ EXCEPT !.pc = "spawn", !.prior = PriorSuccess(c), !.last = None,
                             !.out = None,
                             !.token = calls[CHOOSE d \in cache : TRUE].proc.GH_TOKEN]
              ELSE IF r.ok
              THEN [@ EXCEPT !.pc = "spawn", !.token = r.val, !.last = None,
                         !.out = None, !.prior = PriorSuccess(c)]
              ELSE Handle([@ EXCEPT !.prior = PriorSuccess(c), !.out = None], r)]
    /\ UNCHANGED <<config, fs, q, gw, installed, gh, ab, env, probe>>

\* faulty variant: the token is read once per call and kept for the later
\* invocations of that call
RunResolve_once(c) ==
    /\ calls[c].pc = "resolve"
    /\ LET r == get_token(config, calls[c].account, fs) IN
       calls' = [calls EXCEPT ![c] =
          IF calls[c].proc.GH_TOKEN # <<>>
          THEN [@ EXCEPT !.pc = "spawn", !.token = calls[c].proc.GH_TOKEN,
                         !.last = None, !.out = None, !.prior = PriorSuccess(c)]
          ELSE IF r.ok
          THEN [@ EXCEPT !.pc = "spawn", !.token = r.val, !.last = None,
                         !.out = None, !.prior = PriorSuccess(c)]
          ELSE Handle([@ EXCEPT !.prior = PriorSuccess(c), !.out = None], r)]
    /\ UNCHANGED <<config, fs, q, gw, installed, gh, ab, env, probe>>

\* run and run_raw, first line: let token = self.config.get_token(account)?;
RunResolve(c) ==
    /\ calls[c].pc = "resolve"
    /\ LET r == get_token(config, calls[c].account, fs) IN
       calls' = [calls EXCEPT ![c] =
          IF r.ok
          THEN [@ EXCEPT !.pc = "spawn", !.token = r.val, !.last = None,
                         !.out = None, !.prior = PriorSuccess(c)]
          ELSE Handle([@ EXCEPT !.prior = PriorSuccess(c), !.out = None], r)]
    /\ UNCHANGED <<config, fs, q, gw, installed, gh, ab, env, probe>>

\* faulty variant: create_branch does not await its lookup: the POST is
\* spawned with the literal source while the lookup process still runs
RunSpawn_overlapping(c) ==
    /\ \/ /\ calls[c].pc = "spawn"
          /\ calls' = [calls EXCEPT ![c] =
                [@ EXCEPT !.pc = "wait",
                          !.spawned = @ + 1,
                          !.proc = [alive |-> TRUE, GH_TOKEN |-> calls[c].token,
                                    NO_COLOR |-> Txt("1"), args |-> ArgsOf(calls[c])]]]
       \/ /\ calls[c].pc = "wait" /\ calls[c].step = "lookup"
          /\ calls' = [calls EXCEPT ![c] =
                [@ EXCEPT !.step = "final",
                          !.value = Txt(source(calls[c])),
                          !.spawned = @ + 1,
                          !.proc = [alive |-> TRUE, GH_TOKEN |-> calls[c].token,
                                    NO_COLOR |-> Txt("1"),
                                    args |-> ArgsOf([calls[c] EXCEPT
                                                !.step = "final",
                                                !.value = Txt(source(calls[c]))])]]]
    /\ UNCHANGED <<config, fs, q, gw, installed, gh, ab, env, probe>>

\* faulty variant: the token is exported in the server's own environment
\* (std::env::set_var) for the child to inherit
RunSpawn_set_var(c) ==
    /\ calls[c].pc = "spawn"
    /\ calls' = [calls EXCEPT ![c] =
          [@ EXCEPT !.pc = "wait",
                    !.spawned = @ + 1,
                    !.proc = [alive |-> TRUE, GH_TOKEN |-> calls[c].token,
                              NO_COLOR |-> Txt("1"), args |-> ArgsOf(calls[c])]]]
    /\ env' = [env EXCEPT !.GH_TOKEN = Some(calls[c].token)]
    /\ UNCHANGED <<config, fs, q, gw, installed, gh, ab, probe>>

\* Command::new("gh").args(args).env("GH_TOKEN", &token).env("NO_COLOR", "1")
\* ... .spawn() succeeds
RunSpawn(c) ==
    /\ calls[c].pc = "spawn"
    /\ calls' = [calls EXCEPT ![c] =
          [@ EXCEPT !.pc = "wait",
                    !.spawned = @ + 1,
                    !.proc = [alive |-> TRUE, GH_TOKEN |-> calls[c].token,
                              NO_COLOR |-> Txt("1"), args |-> ArgsOf(calls[c])]]]
    /\ UNCHANGED <<config, fs, q, gw, installed, gh, ab, env, probe>>

\* .spawn() fails: Error::GhCli("Failed to spawn gh: {e}")
RunSpawnFail(c) ==
    /\ calls[c].pc = "spawn"
    /\ calls' = [calls EXCEPT ![c] =
          Handle(@, Err("GhCli", <<"Failed to spawn gh: ", "os error">>))]
    /\ UNCHANGED <<config, fs, q, gw, installed, gh, ab, env, probe>>

\* the gh process exits; wait_with_output returns its Output and run (or
\* run_raw) classifies it
RunExit(c, out) ==
    /\ calls[c].pc = "wait"
    /\ calls' = [calls EXCEPT ![c] =
          Handle([@ EXCEPT !.proc.alive = FALSE, !.out = Some(out)],
                 IF Mode(calls[c]) = "raw"
                 THEN run_raw_output(out.status, out.stdout, out.stderr).result
                 ELSE run_output(out.status, out.stdout, out.stderr).result)]
    /\ UNCHANGED <<config, fs, q, gw, installed, gh, ab, env, probe>>

\* faulty variant: the wait is given up after a while and the call returns
\* although the process has not ended
RunWaitFail_timeout(c) ==
    /\ calls[c].pc = "wait"
    /\ calls' = [calls EXCEPT ![c] =
          Handle(@, Err("GhCli", <<"Failed to wait for gh: ", "timed out">>))]
    /\ UNCHANGED <<config, fs, q, gw, installed, gh, ab, env, probe>>

\* wait_with_output fails: Error::GhCli("Failed to wait for gh: {e}")
RunWaitFail(c) ==
    /\ calls[c].pc = "wait"
    /\ calls' = [calls EXCEPT ![c] =
          Handle([@ EXCEPT !.proc.alive = FALSE],
                 Err("GhCli", <<"Failed to wait for gh: ", "os error">>))]
    /\ UNCHANGED <<config, fs, q, gw, installed, gh, ab, env, probe>>

\* the operator writes, empties or removes a token file
OperatorSets(p, f) ==
    /\ fs[p] # f
    /\ fs' = [fs EXCEPT ![p] = f]
    /\ UNCHANGED <<config, q, gw, calls, installed, gh, ab, env, probe>>

Next ==
    \/ run_serve
    \/ \E c \in Clients : \E req \in Requests(c) : Start(c, req)
    \/ \E c \in Clients : RunResolve(c)
    \/ \E c \in Clients : RunSpawn(c)
    \/ \E c \in Clients : RunSpawnFail(c)
    \/ \E c \in Clients : \E out \in GhOutcomes : RunExit(c, out)
    \/ \E c \in Clients : RunWaitFail(c)
    \/ \E p \in FsPaths : \E f \in OperatorFiles(p) : OperatorSets(p, f)

Spec == Init /\ [][Next]_vars

(***************************************************************************)
(* Server properties                                                       *)
(***************************************************************************)
RepoScopedOps == {"set_branch_protection", "create_branch", "create_tag"}

Unconfigured(call) ==
    call.account # None /\ call.account[1] \notin DOMAIN config.accounts

\* the token file of the account a call selects (the account is configured)
OwnFile(call) == fs[tilde(config.accounts[EffectiveName(call)])]

\* the selected account is configured and its file holds a usable token
Resolvable(call) ==
    /\ EffectiveName(call) \in DOMAIN config.accounts
    /\ OwnFile(call).exists /\ OwnFile(call).readable
    /\ ~AllWhitespace(OwnFile(call).content)

\* client c takes its resolve step
Resolves(c) == calls[c].pc = "resolve" /\ calls'[c] # calls[c]

\* client c spawns a gh process
Spawns(c) == calls'[c].spawned # calls[c].spawned

\* C4 as stated: a call of a repository-scoped operation whose account is not
\* configured spawns no subprocess and ends in an error response carrying
\* AccountNotFound for that name, never in a success-shaped response.
C4_UnconfiguredAccountIsError ==
    \A c \in Clients :
        (calls[c].op \in RepoScopedOps /\ Unconfigured(calls[c])) =>
            /\ calls[c].spawned = 0
            /\ calls[c].pc = "done" =>
                  calls[c].resp =
                      err(Err("AccountNotFound", <<calls[c].account[1]>>))

\* C5: in every gateway invocation the credential is resolved before the
\* subprocess is spawned: a process is spawned only by a call that holds the
\* token of a successful resolve of the same invocation, and when the resolve
\* fails the invocation returns get_token's error unchanged and the step
\* spawns nothing.
C5_ResolveBeforeSpawn ==
    [][\A c \in Clients :
          /\ Spawns(c) =>
                /\ calls[c].pc = "spawn"
                /\ calls[c].token # <<>>
                /\ calls'[c].spawned = calls[c].spawned + 1
          /\ (calls[c].pc # "spawn" /\ calls'[c].pc = "spawn") =>
                /\ calls[c].pc = "resolve"
                /\ Resolvable(calls[c])
                /\ calls'[c].token # <<>>
          /\ (Resolves(c) /\ ~Resolvable(calls[c])) =>
                /\ calls'[c].last = Some(get_token(config, calls[c].account, fs))
                /\ ~calls'[c].last[1].ok
                /\ calls'[c].last[1].kind \in
                      {"AccountNotFound", "TokenNotFound", "TokenRead"}
                /\ calls'[c].pc \in {"resolve", "done"}
                /\ calls'[c].spawned = calls[c].spawned
                /\ ~calls'[c].proc.alive
      ]_vars

\* one call waits for the process it spawned while another call has returned
\* a credential error without spawning
C5_Witness ==
    \E c, d \in Clients :
        /\ calls[c].pc = "wait" /\ calls[c].spawned = 1 /\ calls[c].proc.alive
        /\ calls[d].pc = "done" /\ calls[d].spawned = 0
        /\ calls[d].last # None /\ ~calls[d].last[1].ok
        /\ calls[d].last[1].kind = "TokenNotFound"

\* C6: under any interleaving of calls and token-file changes, the token a
\* call obtains at its resolve step is the trimmed content of the token file
\* of the account that call selects, and the GH_TOKEN of the process it
\* spawns is that token; no process receives another account's token.
C6_OwnAccountToken ==
    [][\A c \in Clients :
          /\ (Resolves(c) /\ calls'[c].pc = "spawn") =>
                /\ EffectiveName(calls[c]) \in DOMAIN config.accounts
                /\ IsTrimOf(calls'[c].token, OwnFile(calls[c]).content)
          /\ Spawns(c) =>
                /\ calls'[c].proc.alive
                /\ calls'[c].proc.GH_TOKEN = calls[c].token
                /\ calls'[c].token = calls[c].token
      ]_vars

\* two processes alive at once, for "work" (file "ghp_abcdef\n") and "home"
C6_Witness ==
    \E c, d \in Clients :
        /\ calls[c].account = Some("work") /\ calls[c].proc.alive
        /\ calls[c].proc.GH_TOKEN = <<"ghp_abcdef">>
        /\ calls[d].account = Some("home") /\ calls[d].proc.alive
        /\ calls[d].proc.GH_TOKEN = <<"ghp_home">>

\* C7: no credential is cached across invocations: every resolve step reads
\* the token file as it is at that step, also after an earlier invocation for
\* the same account succeeded: changed content gives the new trimmed token, a
\* removed file gives TokenNotFound and an emptied file gives TokenRead.
C7_NoCaching ==
    [][\A c \in Clients :
          (Resolves(c) /\ EffectiveName(calls[c]) \in DOMAIN config.accounts) =>
              LET f == OwnFile(calls[c]) IN
              /\ Resolvable(calls[c]) =>
                    /\ calls'[c].pc = "spawn"
                    /\ IsTrimOf(calls'[c].token, f.content)
              /\ ~f.exists =>
                    /\ calls'[c].last # None
                    /\ ~calls'[c].last[1].ok
                    /\ calls'[c].last[1].kind = "TokenNotFound"
                    /\ calls'[c].pc # "spawn"
              /\ (f.exists /\ ~Resolvable(calls[c])) =>
                    /\ calls'[c].last # None
                    /\ ~calls'[c].last[1].ok
                    /\ calls'[c].last[1].kind = "TokenRead"
                    /\ calls'[c].pc # "spawn"
      ]_vars

\* a call injected "ghp_abcdef" and completed; a later call for the same
\* account resolved after the rotation and injected "ghp_rotated"
C7_Witness ==
    \E c, d \in Clients :
        /\ c # d
        /\ calls[d].pc = "done" /\ calls[d].proc.GH_TOKEN = <<"ghp_abcdef">>
        /\ EffectiveName(calls[c]) = EffectiveName(calls[d])
        /\ calls[c].prior
        /\ calls[c].proc.alive /\ calls[c].proc.GH_TOKEN = <<"ghp_rotated">>

\* a call succeeded; a later call for the same account found the file removed
C7_WitnessRemoved ==
    \E c, d \in Clients :
        /\ c # d
        /\ calls[d].pc = "done" /\ calls[d].resp.shape = "success"
        /\ calls[d].proc.GH_TOKEN # <<>>
        /\ EffectiveName(calls[c]) = EffectiveName(calls[d])
        /\ calls[c].prior
        /\ calls[c].pc = "done" /\ calls[c].spawned = 0
        /\ calls[c].last # None /\ ~calls[c].last[1].ok
        /\ calls[c].last[1].kind = "TokenNotFound"

(***************************************************************************)
(* Gateway classification properties                                       *)
(***************************************************************************)
Failed == gw.classified /\ ~success(gw.status)
Succeeded == gw.classified /\ success(gw.status)
Structured == gw.classified /\ gw.mode = "structured"

\* C8 as stated: on a non-zero exit the message is the trimmed stderr when the
\* trimmed stderr is non-empty and the trimmed stdout otherwise (a stderr of
\* whitespace only falls back to stdout); the result is never a success.
C8_Original ==
    Failed =>
        /\ ~gw.result.ok /\ gw.result.kind = "GhCli"
        /\ gw.result.arg =
              IF ~AllWhitespace(gw.stderr) THEN trim(gw.stderr) ELSE trim(gw.stdout)

\* C8 (amended): on a non-zero exit, run and run_raw return Error::GhCli whose
\* message is the trimmed stderr when the raw stderr is non-empty (so a stderr
\* of whitespace only gives an empty message) and the trimmed stdout when
\* stderr is empty; the output of a failed process is never parsed nor
\* returned as a success.
C8_FailureMessage ==
    Failed =>
        /\ ~gw.result.ok /\ gw.result.kind = "GhCli"
        /\ ~gw.parsed
        /\ IF Len(gw.stderr) > 0
           THEN IsTrimOf(gw.result.arg, gw.stderr)
           ELSE IsTrimOf(gw.result.arg, gw.stdout)

\* a failed process with whitespace-only stderr and text on stdout
C8_Witness ==
    /\ Failed
    /\ gw.stderr = <<"\n">>
    /\ gw.stdout = <<"x">>
    /\ gw.result = Err("GhCli", <<>>)

\* a failed process with empty stderr: the message comes from stdout
C8_WitnessStdout ==
    /\ Failed
    /\ gw.stderr = <<>>
    /\ gw.stdout = <<" ", "x", "\n">>
    /\ gw.result = Err("GhCli", <<"x">>)

\* C9: a zero exit in structured mode with trim-empty stdout gives Ok(Null),
\* and from_str is called only when the trimmed stdout is non-empty.
C9_EmptyStdoutIsNull ==
    (Structured /\ Succeeded) =>
        /\ AllWhitespace(gw.stdout) => gw.result = Ok(JNull)
        /\ gw.parsed => ~AllWhitespace(gw.stdout)

\* structured mode, zero exit, stdout of whitespace only
C9_Witness ==
    /\ Structured /\ Succeeded
    /\ gw.stdout = <<" ", "\n">>
    /\ gw.result = Ok(JNull)

Unparseable == Structured /\ Succeeded /\ ~AllWhitespace(gw.stdout) /\ ~gw.result.ok

\* C10 as stated: a zero exit in structured mode with non-empty stdout that
\* does not parse gives an error of a kind distinct from the Error::GhCli of a
\* non-zero exit, whose message carries a non-empty prefix of the raw output.
C10_MalformedOutputDistinct ==
    Unparseable =>
        /\ gw.result.kind # "GhCli"
        /\ \E n \in 1..Len(gw.stdout) :
              Contains(gw.result.arg, SubSeq(gw.stdout, 1, n))

(***************************************************************************)
(* Credential store properties                                             *)
(***************************************************************************)
ProbedUnknown ==
    q.asked /\ q.account # None /\ q.account[1] \notin DOMAIN config.accounts

ProbedConfigured ==
    q.asked /\ q.account # None /\ q.account[1] \in DOMAIN config.accounts

\* C1: resolving a name that is not a key of the accounts map (exact,
\* case-sensitive match) fails with AccountNotFound carrying that name, in
\* get_token_path and in get_token, whatever the default account is.
C1_UnknownAccountNotFound ==
    ProbedUnknown =>
        /\ q.path = Err("AccountNotFound", <<q.account[1]>>)
        /\ q.token = Err("AccountNotFound", <<q.account[1]>>)

\* an unknown name (differing from a key only in case) was resolved while the
\* default account is configured and its token file holds a usable token
C1_Witness ==
    /\ ProbedUnknown
    /\ q.account = Some("Work")
    /\ "work" \in DOMAIN config.accounts
    /\ config.default_account = "work"
    /\ fs[tilde(config.accounts["work"])] = File(<<"ghp_abcdef", "\n">>)
    /\ ~q.token.ok

\* C2: for a configured account, get_token returns the trimmed content of the
\* token file when it exists, is readable and is not trim-empty; TokenNotFound
\* with the expanded path when it does not exist; TokenRead when it is
\* unreadable or trim-empty; and never an empty credential.
C2_TokenOfConfiguredAccount ==
    ProbedConfigured =>
        LET path == tilde(config.accounts[q.account[1]])
            f == fs[path]
        IN  /\ (f.exists /\ f.readable /\ ~AllWhitespace(f.content)) =>
                  q.token.ok /\ IsTrimOf(q.token.val, f.content)
            /\ ~f.exists => q.token = Err("TokenNotFound", path)
            /\ (f.exists /\ (~f.readable \/ AllWhitespace(f.content))) =>
                  ~q.token.ok /\ q.token.kind = "TokenRead"
            /\ q.token.ok => q.token.val # <<>>

\* a configured account whose file has surrounding whitespace was resolved
C2_Witness ==
    /\ ProbedConfigured
    /\ fs[tilde(config.accounts[q.account[1]])].content = <<" ", "ghp_abcdef">>
    /\ q.token = Ok(<<"ghp_abcdef">>)

\* C3: resolving with the account omitted gives the same path, token or error
\* as resolving with Some(default_account), for every configuration and every
\* state of the token files.
C3_NoneIsDefault ==
    (q.asked /\ q.account = None) =>
        /\ q.path = get_token_path(config, Some(config.default_account))
        /\ q.token = get_token(config, Some(config.default_account), fs)

\* the account was omitted and the default account's token was returned
C3_Witness ==
    /\ q.asked /\ q.account = None
    /\ config.default_account = "home"
    /\ q.token = Ok(<<"ghp_abcdef">>)

\* the account was omitted and the default name is not a key of the map
C3_WitnessUnconfiguredDefault ==
    /\ q.asked /\ q.account = None
    /\ q.token = Err("AccountNotFound", <<config.default_account>>)

(***************************************************************************)
(* Response and construction properties                                    *)
(***************************************************************************)
\* the call has returned after a process of its only invocation exited 0
ExitedZero(call) ==
    call.pc = "done" /\ call.out # None /\ call.out[1].status = 0

\* C11 as stated: whenever the subprocess of get_pr_diff exits successfully
\* the response is a plain-text payload equal to the subprocess's stdout,
\* whatever the stdout holds, and never an error; run_raw likewise returns
\* the stdout untouched.
C11_DiffVerbatim ==
    \A c \in Clients :
        /\ (calls[c].op = "get_pr_diff" /\ ExitedZero(calls[c])) =>
               calls[c].resp = SuccessText(calls[c].out[1].stdout)
        /\ (calls[c].op = "run_raw" /\ ExitedZero(calls[c])) =>
               calls[c].last = Some(Ok(calls[c].out[1].stdout))

\* C12: GhClient::new fails with GhNotFound whenever gh is not on the search
\* path, and then no client exists and no operation call is ever started;
\* when gh is on the path the construction succeeds whatever the token
\* files hold.
C12_ConstructionNeedsGh ==
    /\ [](~installed =>
            /\ gh \in {None, Some(Err("GhNotFound", <<>>))}
            /\ calls = NoCalls)
    /\ [][(gh = None /\ gh' # None /\ installed) =>
            /\ gh'[1].ok
            /\ gh'[1].val.config = config]_vars

\* construction was attempted without gh on the path and failed
C12_Witness ==
    /\ ~installed
    /\ gh = Some(Err("GhNotFound", <<>>))
    /\ \A p \in FsPaths : fs[p] = StartupFs[p]

\* the client exists although no token file does
C12_WitnessNoTokens ==
    /\ installed /\ Serving
    /\ calls = NoCalls
    /\ \A p \in FsPaths : fs[p] = NoFile

(***************************************************************************)
(* Multi-invocation handlers, error mapping and the number of processes    *)
(***************************************************************************)
\* the `from` parameter of a create_branch call, or the literal HEAD
Src(call) == IF call.arg = None THEN "HEAD" ELSE call.arg[1]

\* the commit id a ref lookup printed, if it printed one
CommitId(result) == as_str(Index(Index(result.val, "object"), "sha"))

\* the current invocation of client c returns to its handler in this step
Returns(c) == calls'[c].last # None /\ calls'[c].last # calls[c].last

\* the endpoint prefix of the repository every call of the model names
RepoEndpoint == <<"repos/", Owner, "/", Repo>>

\* C13: create_branch first issues the read-only lookup of the ref of its
\* source ("from", or HEAD when unset); when that lookup fails for any reason
\* the call goes on, not to a response, and its branch-creating invocation
\* carries sha=<source>; when the lookup returns a commit id, the invocation
\* carries that commit id.
C13_LookupFallback ==
    /\ [](\A c \in Clients : calls[c].op = "create_branch" =>
            /\ (calls[c].pc = "wait" /\ calls[c].step = "lookup") =>
                  calls[c].proc.args =
                     << <<"api">>,
                        RepoEndpoint \o <<"/git/ref/heads/", Src(calls[c])>> >>
            /\ (calls[c].pc = "wait" /\ calls[c].step = "final") =>
                  /\ calls[c].proc.args[2] = <<"-X">>
                  /\ calls[c].proc.args[3] = <<"POST">>
                  /\ calls[c].proc.args[Len(calls[c].proc.args)]
                        = <<"sha=">> \o calls[c].value
            /\ calls[c].pc = "done" => calls[c].step = "final")
    /\ [][\A c \in Clients :
            /\ (calls[c].pc = "idle" /\ calls'[c].op = "create_branch") =>
                  calls'[c].step = "lookup" /\ calls'[c].spawned = 0
            /\ (calls[c].op = "create_branch" /\ calls[c].step = "lookup"
                  /\ Returns(c)) =>
                  /\ calls'[c].pc = "resolve"
                  /\ calls'[c].step = "final"
                  /\ calls'[c].resp = NoResponse
                  /\ ~calls'[c].last[1].ok =>
                        calls'[c].value = <<Src(calls[c])>>
                  /\ (calls'[c].last[1].ok /\ CommitId(calls'[c].last[1]) # None) =>
                        calls'[c].value = CommitId(calls'[c].last[1])
      ]_vars

\* the lookup of a create_branch call failed in gh and the branch-creating
\* process runs with the literal source
C13_Witness ==
    \E c \in Clients :
        /\ calls[c].op = "create_branch" /\ calls[c].arg = Some("develop")
        /\ calls[c].step = "final" /\ calls[c].pc = "wait"
        /\ calls[c].spawned = 2
        /\ calls[c].value = <<"develop">>
        /\ calls[c].proc.args[8] = <<"sha=", "develop">>

\* the lookup returned a commit id and the branch-creating process uses it
C13_WitnessCommitId ==
    \E c \in Clients :
        /\ calls[c].op = "create_branch"
        /\ calls[c].step = "final" /\ calls[c].pc = "wait"
        /\ calls[c].proc.args[8] = <<"sha=", "abc123">>

\* C14 as stated: a create_tag call with sha unset does not end with the
\* error of one of its lookups; the tag-creating invocation is still issued.
C14_LookupErrorNotPropagated ==
    \A c \in Clients :
        (calls[c].op = "create_tag" /\ calls[c].arg = None
            /\ calls[c].pc = "done") => calls[c].step = "final"

\* C14 amended: in create_tag with sha unset, a lookup invocation that fails
\* ends the call with a transport error carrying that error's message and
\* the tag-creating invocation is not issued; the literal fallbacks ("main"
\* for the default branch, the empty string for the commit id) are used only
\* when a lookup succeeds without the expected string field.
C14_LookupErrorPropagates ==
    /\ [](\A c \in Clients :
            (calls[c].op = "create_tag" /\ calls[c].arg = None
                /\ calls[c].step = "final") => calls[c].spawned >= 2)
    /\ [][\A c \in Clients :
            (calls[c].op = "create_tag" /\ calls[c].arg = None
                /\ calls[c].step \in {"repo_info", "ref_info"} /\ Returns(c)) =>
               LET r == calls'[c].last[1] IN
               /\ ~r.ok =>
                     /\ calls'[c].pc = "done"
                     /\ calls'[c].step = calls[c].step
                     /\ calls'[c].resp = err(r)
                     /\ calls'[c].spawned = calls[c].spawned
               /\ (r.ok /\ calls[c].step = "repo_info") =>
                     /\ calls'[c].pc = "resolve" /\ calls'[c].step = "ref_info"
                     /\ calls'[c].value =
                           IF as_str(Index(r.val, "default_branch")) = None
                           THEN <<"main">>
                           ELSE as_str(Index(r.val, "default_branch"))
               /\ (r.ok /\ calls[c].step = "ref_info") =>
                     /\ calls'[c].pc = "resolve" /\ calls'[c].step = "final"
                     /\ calls'[c].value = CommitId(r)
      ]_vars

\* a create_tag call with sha unset has ended with the error of its first
\* lookup, whose process failed
C14_Witness ==
    \E c \in Clients :
        /\ calls[c].op = "create_tag" /\ calls[c].arg = None
        /\ calls[c].pc = "done" /\ calls[c].step = "repo_info"
        /\ calls[c].spawned = 1
        /\ calls[c].resp.shape = "error"

\* both lookups succeeded without the expected fields and the tag is created
\* from the empty commit id
C14_WitnessFallback ==
    \E c \in Clients :
        /\ calls[c].op = "create_tag" /\ calls[c].arg = None
        /\ calls[c].pc = "wait" /\ calls[c].step = "final"
        /\ calls[c].proc.args[8] = <<"sha=">>

\* C15: when the invocation of set_branch_protection fails with a gh CLI
\* error the call returns a success-shaped text made of the note about the
\* limitation followed by the error's message, never a transport error; when
\* the invocation succeeds the call returns the structured result.
C15_ProtectionDegrades ==
    \A c \in Clients :
        (calls[c].op = "set_branch_protection" /\ calls[c].pc = "done") =>
            /\ calls[c].last # None
            /\ (~calls[c].last[1].ok /\ calls[c].last[1].kind = "GhCli") =>
                  /\ calls[c].resp.shape = "success"
                  /\ calls[c].resp.kind = "text"
                  /\ calls[c].resp.text[1] = protection_note
                  /\ Tail(calls[c].resp.text) =
                        <<"gh CLI error: ">> \o calls[c].last[1].arg
            /\ calls[c].last[1].ok =>
                  /\ calls[c].resp.shape = "success"
                  /\ calls[c].resp.kind = "json"
                  /\ calls[c].resp.json = calls[c].last[1].val

\* gh exited non-zero for a set_branch_protection call, which has returned
\* the note
C15_Witness ==
    \E c \in Clients :
        /\ calls[c].op = "set_branch_protection" /\ calls[c].pc = "done"
        /\ calls[c].out # None /\ calls[c].out[1].status = 1
        /\ calls[c].resp.shape = "success"
        /\ Contains(calls[c].resp.text, <<"boom">>)

\* the operations of the model other than set_branch_protection
MappedOps == {"get_me", "get_pr_diff", "create_branch", "create_tag"}

\* C16: for every operation other than set_branch_protection, when the final
\* (or only) invocation returns an error, the call returns a transport error
\* whose message is the message of that error, never a success-shaped
\* response.
C16_FinalErrorIsTransportError ==
    \A c \in Clients :
        (calls[c].op \in MappedOps /\ calls[c].pc = "done"
            /\ calls[c].step = "final" /\ ~calls[c].last[1].ok) =>
            /\ calls[c].resp.shape = "error"
            /\ calls[c].resp.json = JNull
            /\ calls[c].resp.text =
                  <<ErrorPrefix(calls[c].last[1].kind)>> \o calls[c].last[1].arg

\* a branch-creating invocation failed in gh after its lookup and the call
\* returned the transport error
C16_Witness ==
    \E c \in Clients :
        /\ calls[c].op = "create_branch" /\ calls[c].pc = "done"
        /\ calls[c].spawned = 2
        /\ calls[c].last = Some(Err("GhCli", <<"boom">>))
        /\ calls[c].resp.shape = "error"

\* a call failed on its credential and returned the transport error
C16_WitnessCredential ==
    \E c \in Clients :
        /\ calls[c].op = "get_me" /\ calls[c].pc = "done"
        /\ calls[c].spawned = 0
        /\ calls[c].last[1].kind = "TokenNotFound"
        /\ calls[c].resp.shape = "error"

\* the largest number of processes one call of an operation may spawn
MaxSpawns(call) ==
    CASE call.op = "create_branch" -> 2
      [] call.op = "create_tag" /\ call.arg = None -> 3
      [] OTHER -> 1

\* C17: no invocation is issued again after it failed, and the number of
\* processes a call spawns is bounded per operation: 1 for the operations
\* with one invocation, 2 for create_branch, 3 for create_tag with sha unset
\* and 1 with sha set, whatever the outcomes.
C17_NoRetries ==
    /\ [](\A c \in Clients : calls[c].spawned <= MaxSpawns(calls[c]))
    /\ [][\A c \in Clients :
            (Returns(c) /\ ~calls'[c].last[1].ok) =>
                \/ calls'[c].pc = "done"
                \/ calls'[c].step # calls[c].step
      ]_vars

\* a create_tag call with sha unset has spawned its three processes and the
\* last one failed
C17_Witness ==
    \E c \in Clients :
        /\ calls[c].op = "create_tag" /\ calls[c].arg = None
        /\ calls[c].pc = "done" /\ calls[c].spawned = 3
        /\ ~calls[c].last[1].ok

\* a single-invocation call has returned the failure of its one process
C17_WitnessSingle ==
    \E c \in Clients :
        /\ calls[c].op = "get_me" /\ calls[c].pc = "done"
        /\ calls[c].spawned = 1 /\ ~calls[c].last[1].ok

(***************************************************************************)
(* Argument construction: the vectors the handlers and GhClient::api build *)
(* from a request, for every subset of the optional parameters             *)
(***************************************************************************)
\* let x; if let Some(ref v) = param { x = format!("<prefix>{v}");
\* args.push(&x); }
push_fmt(prefix, param) ==
    IF param = None THEN <<>> ELSE << <<prefix, param[1]>> >>

\* if let Some(limit) = params.0.limit { limit_str = limit.to_string();
\* args.push("--limit"); args.push(&limit_str); }
push_limit(param) ==
    IF param = None THEN <<>> ELSE <<Txt("--limit"), Txt(ToString(param[1]))>>

\* if flag.unwrap_or(false) { args.push(name) }
push_if(name, flag) ==
    IF unwrap_or(flag, FALSE) THEN <<Txt(name)>> ELSE <<>>

\* create_repo: the org parameter is not read
create_repo_args(p) ==
    <<Txt("repo"), Txt("create"), Txt(Repo)>>
    \o push_fmt("--description=", p.description)
    \o (IF unwrap_or(p.private, FALSE) THEN <<Txt("--private")>>
        ELSE <<Txt("--public")>>)
    \o <<Txt("--confirm")>>

\* faulty variant: the head filter is pushed before the base filter when
\* both are given
list_prs_args_head_first(p) ==
    <<Txt("pr"), Txt("list"), Txt("--repo"), <<Owner, "/", Repo>> >>
    \o push_fmt("--state=", p.state)
    \o push_limit(p.limit)
    \o push_fmt("--head=", p.head)
    \o push_fmt("--base=", p.base)
    \o <<Txt("--json"),
         Txt("number,title,state,author,createdAt,updatedAt,url,headRefName,baseRefName")>>

list_prs_args(p) ==
    <<Txt("pr"), Txt("list"), Txt("--repo"), <<Owner, "/", Repo>> >>
    \o push_fmt("--state=", p.state)
    \o push_limit(p.limit)
    \o push_fmt("--base=", p.base)
    \o push_fmt("--head=", p.head)
    \o <<Txt("--json"),
         Txt("number,title,state,author,createdAt,updatedAt,url,headRefName,baseRefName")>>

merge_pr_args(p) ==
    <<Txt("pr"), Txt("merge"), Txt(ToString(PrNumber)), Txt("--repo"),
      <<Owner, "/", Repo>> >>
    \o (CASE p.method = Some("squash") -> <<Txt("--squash")>>
          [] p.method = Some("rebase") -> <<Txt("--rebase")>>
          [] OTHER -> <<Txt("--merge")>>)
    \o push_if("--delete-branch", p.delete_branch)
    \o push_fmt("--body=", p.commit_message)

\* query_params.join("&")
RECURSIVE join(_, _)
join(parts, sep) ==
    IF parts = <<>> THEN <<>>
    ELSE IF Len(parts) = 1 THEN parts[1]
    ELSE parts[1] \o <<sep>> \o join(Tail(parts), sep)

\* list_commits: the optional parameters go into the endpoint's query
list_commits_endpoint(p) ==
    LET query_params ==
            (IF p.sha = None THEN <<>> ELSE << <<"sha=", p.sha[1]>> >>)
            \o (IF p.path = None THEN <<>> ELSE << <<"path=", p.path[1]>> >>)
            \o (IF p.author = None THEN <<>> ELSE << <<"author=", p.author[1]>> >>)
            \o (IF p.limit = None THEN <<>>
                ELSE << <<"per_page=", ToString(p.limit[1])>> >>)
    IN  <<"repos/", Owner, "/", Repo, "/commits">>
        \o (IF query_params = <<>> THEN <<>>
            ELSE <<"?">> \o join(query_params, "&"))

list_commits_args(p) == api_args(list_commits_endpoint(p), None, <<>>)

list_workflow_runs_args(p) ==
    <<Txt("run"), Txt("list"), Txt("--repo"), <<Owner, "/", Repo>> >>
    \o push_fmt("--workflow=", p.workflow)
    \o push_fmt("--branch=", p.branch)
    \o push_fmt("--status=", p.status)
    \o push_limit(p.limit)
    \o <<Txt("--json"),
         Txt("databaseId,workflowName,status,conclusion,headBranch,event,createdAt,url")>>

\* format!("{}", bool)
fmt_bool(b) == IF b THEN "true" ELSE "false"

\* set_branch_protection: the settings object the handler assembles, as its
\* members in insertion order with their values rendered; it is serialized
\* into _body_str and not used again
protection_body(p) ==
    << <<"required_status_checks",
         IF p.required_status_checks # None
         THEN <<"strict=", fmt_bool(unwrap_or(p.required_status_checks[1].strict, FALSE)),
                "contexts=">>
              \o unwrap_or(p.required_status_checks[1].contexts, <<>>)
         ELSE <<"null">> >>,
       <<"enforce_admins", <<fmt_bool(unwrap_or(p.enforce_admins, FALSE))>> >>,
       <<"required_pull_request_reviews",
         IF p.required_pull_request_reviews # None
         THEN LET r == p.required_pull_request_reviews[1] IN
              <<"required_approving_review_count=",
                ToString(unwrap_or(r.required_approving_review_count, 1)),
                "dismiss_stale_reviews=",
                fmt_bool(unwrap_or(r.dismiss_stale_reviews, FALSE)),
                "require_code_owner_reviews=",
                fmt_bool(unwrap_or(r.require_code_owner_reviews, FALSE))>>
         ELSE <<"null">> >>,
       <<"restrictions", <<"null">> >> >>
    \o (IF p.required_linear_history # None
        THEN << <<"required_linear_history",
                  <<fmt_bool(p.required_linear_history[1])>> >> >>
        ELSE <<>>)
    \o (IF p.allow_force_pushes # None
        THEN << <<"allow_force_pushes", <<fmt_bool(p.allow_force_pushes[1])>> >> >>
        ELSE <<>>)
    \o (IF p.allow_deletions # None
        THEN << <<"allow_deletions", <<fmt_bool(p.allow_deletions[1])>> >> >>
        ELSE <<>>)

\* faulty variant: the history and push settings are passed as fields too
set_branch_protection_args_with_settings(p) ==
    <<Txt("api"), Txt("-X"), Txt("PUT"),
      <<"repos/", p.owner, "/", p.repo, "/branches/", p.branch, "/protection">>,
      Txt("-H"), Txt("Accept: application/vnd.github+json"),
      Txt("-f"), <<"enforce_admins=", fmt_bool(unwrap_or(p.enforce_admins, FALSE))>> >>
    \o (IF p.required_linear_history # None
        THEN <<Txt("-f"), <<"required_linear_history=",
                            fmt_bool(p.required_linear_history[1])>> >>
        ELSE <<>>)
    \o (IF p.allow_force_pushes # None
        THEN <<Txt("-f"), <<"allow_force_pushes=",
                            fmt_bool(p.allow_force_pushes[1])>> >>
        ELSE <<>>)

\* set_branch_protection: the vector handed to self.gh.run
set_branch_protection_args(p) ==
    <<Txt("api"), Txt("-X"), Txt("PUT"),
      <<"repos/", p.owner, "/", p.repo, "/branches/", p.branch, "/protection">>,
      Txt("-H"), Txt("Accept: application/vnd.github+json"),
      Txt("-f"), <<"enforce_admins=", fmt_bool(unwrap_or(p.enforce_admins, FALSE))>> >>

\* the argument vector a handler hands to the gateway
tool_args(op, p) ==
    CASE op = "create_repo" -> create_repo_args(p)
      [] op = "list_prs" -> list_prs_args(p)
      [] op = "merge_pr" -> merge_pr_args(p)
      [] op = "list_commits" -> list_commits_args(p)
      [] op = "list_workflow_runs" -> list_workflow_runs_args(p)

\* GhClient::api: self.run(account, &args) with the vector built from the
\* method, the endpoint and the fields
api(account, endpoint, method, fields) ==
    [account |-> account,
     args |-> api_args(endpoint, method, unwrap_or(fields, <<>>))]

\* values of the optional parameters
Opt(values) == {None} \cup {Some(v) : v \in values}

ToolRequests ==
    { [op |-> "create_repo", p |-> [description |-> d, private |-> pr, org |-> o]] :
         d \in Opt({"a repo"}), pr \in Opt(BOOLEAN), o \in Opt({"acme"}) }
    \cup
    { [op |-> "list_prs", p |-> [state |-> st, limit |-> l, base |-> b, head |-> h]] :
         st \in Opt({"open"}), l \in Opt({5}), b \in Opt({"main"}),
         h \in Opt({"feature"}) }
    \cup
    { [op |-> "merge_pr", p |-> [method |-> m, delete_branch |-> db,
                                 commit_message |-> msg]] :
         m \in Opt({"squash", "rebase", "merge"}), db \in Opt(BOOLEAN),
         msg \in Opt({"done"}) }
    \cup
    { [op |-> "list_commits", p |-> [sha |-> sh, path |-> pa, author |-> au,
                                     limit |-> l]] :
         sh \in Opt({"main"}), pa \in Opt({"src"}), au \in Opt({"octocat"}),
         l \in Opt({5}) }
    \cup
    { [op |-> "list_workflow_runs", p |-> [workflow |-> w, branch |-> b,
                                           status |-> st, limit |-> l]] :
         w \in Opt({"ci.yml"}), b \in Opt({"main"}), st \in Opt({"completed"}),
         l \in Opt({5}) }

\* the parameters of set_branch_protection that reach the vector
ProtectionTargets ==
    { [owner |-> o, repo |-> Repo, branch |-> b, enforce_admins |-> ea] :
         o \in {Owner, "acme"}, b \in {BranchName, "main"}, ea \in Opt(BOOLEAN) }

\* the other parameters of SetBranchProtectionRequest
ProtectionSettings ==
    { [required_status_checks |-> sc, required_pull_request_reviews |-> rv,
       restrictions |-> rs, required_signatures |-> sg,
       required_linear_history |-> lh, allow_force_pushes |-> fp,
       allow_deletions |-> ad] :
         sc \in Opt({[strict |-> Some(TRUE), contexts |-> Some(<<"ci">>)]}),
         rv \in Opt({[required_approving_review_count |-> Some(2),
                      dismiss_stale_reviews |-> None,
                      require_code_owner_reviews |-> Some(TRUE)]}),
         rs \in Opt({TRUE}), sg \in Opt({TRUE}), lh \in Opt({TRUE}),
         fp \in Opt({FALSE}), ad \in Opt({FALSE}) }

NoSettings ==
    [required_status_checks |-> None, required_pull_request_reviews |-> None,
     restrictions |-> None, required_signatures |-> None,
     required_linear_history |-> None, allow_force_pushes |-> None,
     allow_deletions |-> None]

\* the request made of a target and settings
ProtectionRequest(t, st) ==
    [owner |-> t.owner, repo |-> t.repo, branch |-> t.branch,
     enforce_admins |-> t.enforce_admins,
     required_status_checks |-> st.required_status_checks,
     required_pull_request_reviews |-> st.required_pull_request_reviews,
     restrictions |-> st.restrictions,
     required_signatures |-> st.required_signatures,
     required_linear_history |-> st.required_linear_history,
     allow_force_pushes |-> st.allow_force_pushes,
     allow_deletions |-> st.allow_deletions]

ApiFields == { <<Txt("ref"), <<"refs/heads/", BranchName>> >>,
               <<Txt("sha"), Txt("abc123")>> }

ApiRequests ==
    { [account |-> a, endpoint |-> e, method |-> m, fields |-> f] :
         a \in {None, Some("work")},
         e \in {Txt("user"), <<"repos/", Owner, "/", Repo, "/git/refs">>},
         m \in Opt({"POST", "DELETE"}),
         f \in {None} \cup {Some(fl) : fl \in
                  {<<>>} \cup {<<x>> : x \in ApiFields}
                         \cup {<<x, y>> : x \in ApiFields, y \in ApiFields}} }

InitArgs ==
    /\ config = MainConfig
    /\ fs = StartupFs
    /\ q = NoProbe
    /\ gw = NoGw
    /\ calls = NoCalls
    /\ installed = TRUE
    /\ gh = Some(new(config, installed))
    /\ env = ParentEnv
    /\ probe = NoProbing
    /\ ab \in { [kind |-> "tool", built |-> 0, req |-> r] : r \in ToolRequests }
         \cup { [kind |-> "api", built |-> 0, req |-> r] : r \in ApiRequests }
         \cup { [kind |-> "protection", built |-> 0, target |-> t, settings |-> st] :
                   t \in ProtectionTargets, st \in ProtectionSettings }

\* a handler builds its argument vector; a second call with the same request
\* builds it again
BuildArgs ==
    /\ ab.kind = "tool"
    /\ ab.built < 2
    /\ ab' = IF ab.built = 0
             THEN [kind |-> "tool", built |-> 1, req |-> ab.req,
                   args |-> tool_args(ab.req.op, ab.req.p)]
             ELSE [kind |-> "tool", built |-> 2, req |-> ab.req,
                   args |-> ab.args,
                   again |-> tool_args(ab.req.op, ab.req.p)]
    /\ UNCHANGED <<config, fs, q, gw, calls, installed, gh, env, probe>>

\* GhClient::api is called and hands its vector to run
Api ==
    /\ ab.kind = "api"
    /\ ab.built = 0
    /\ ab' = [kind |-> "api", built |-> 1, req |-> ab.req,
              invocation |-> api(ab.req.account, ab.req.endpoint,
                                 ab.req.method, ab.req.fields)]
    /\ UNCHANGED <<config, fs, q, gw, calls, installed, gh, env, probe>>

\* set_branch_protection is called for a target with the settings given,
\* and once more for the same target with no settings
BuildProtection ==
    /\ ab.kind = "protection"
    /\ ab.built < 2
    /\ ab' = IF ab.built = 0
             THEN [kind |-> "protection", built |-> 1, target |-> ab.target,
                   settings |-> ab.settings,
                   body |-> protection_body(ProtectionRequest(ab.target, ab.settings)),
                   args |-> set_branch_protection_args(
                               ProtectionRequest(ab.target, ab.settings))]
             ELSE [kind |-> "protection", built |-> 2, target |-> ab.target,
                   settings |-> ab.settings, body |-> ab.body, args |-> ab.args,
                   bare_body |-> protection_body(ProtectionRequest(ab.target, NoSettings)),
                   bare_args |-> set_branch_protection_args(
                               ProtectionRequest(ab.target, NoSettings))]
    /\ UNCHANGED <<config, fs, q, gw, calls, installed, gh, env, probe>>

NextArgs == BuildArgs \/ Api \/ BuildProtection

SpecArgs == InitArgs /\ [][NextArgs]_vars

(***************************************************************************)
(* Argument construction properties                                        *)
(***************************************************************************)
Built == ab.kind = "tool" /\ ab.built >= 1

\* C18 as stated: every optional parameter that is present adds exactly one
\* argument to the vector built without it, and no argument is an empty
\* string.
C18_OneArgumentPerOptional ==
    Built =>
        /\ \A k \in DOMAIN ab.req.p :
              ab.req.p[k] # None =>
                 Len(ab.args) =
                    Len(tool_args(ab.req.op, [ab.req.p EXCEPT ![k] = None])) + 1
        /\ \A i \in 1..Len(ab.args) :
              /\ ab.args[i] # <<>>
              /\ \A j \in 1..Len(ab.args[i]) : ab.args[i][j] # ""

\* the flags of each operation in the order the handler pushes them (for
\* list_commits: the components of the endpoint's query)
Order(op) ==
    CASE op = "create_repo" ->
            <<"--description=", "--private", "--public", "--confirm">>
      [] op = "list_prs" ->
            <<"--state=", "--limit", "--base=", "--head=", "--json">>
      [] op = "merge_pr" ->
            <<"--squash", "--rebase", "--merge", "--delete-branch", "--body=">>
      [] op = "list_commits" -> <<"sha=", "path=", "author=", "per_page=">>
      [] op = "list_workflow_runs" ->
            <<"--workflow=", "--branch=", "--status=", "--limit", "--json">>

\* the flag of each optional parameter that carries a value
FlagOf(op) ==
    CASE op = "create_repo" -> [description |-> "--description="]
      [] op = "list_prs" ->
            [state |-> "--state=", limit |-> "--limit", base |-> "--base=",
             head |-> "--head="]
      [] op = "merge_pr" -> [commit_message |-> "--body="]
      [] op = "list_commits" ->
            [sha |-> "sha=", path |-> "path=", author |-> "author=",
             limit |-> "per_page="]
      [] op = "list_workflow_runs" ->
            [workflow |-> "--workflow=", branch |-> "--branch=",
             status |-> "--status=", limit |-> "--limit"]

\* where flags are looked for: the first chunk of every argument, or the
\* chunks of the endpoint of list_commits
Heads(op, args) ==
    IF op = "list_commits" THEN args[2]
    ELSE [i \in 1..Len(args) |-> args[i][1]]

Places(h, x) == {i \in 1..Len(h) : h[i] = x}

\* C19: building the vector twice from the same parameter set yields the
\* same sequence, and the flags of the optional parameters appear at most
\* once each, exactly when their parameter is present, and in one fixed
\* relative order per operation whatever subset is present.
C19_OrderStable ==
    Built =>
        LET op == ab.req.op
            h == Heads(op, ab.args)
            ord == Order(op)
        IN  /\ ab.built = 2 => ab.again = ab.args
            /\ \A i \in 1..Len(ord) : Cardinality(Places(h, ord[i])) <= 1
            /\ \A i, j \in 1..Len(ord) :
                  i < j =>
                     \A a \in Places(h, ord[i]), b \in Places(h, ord[j]) : a < b
            /\ \A k \in DOMAIN FlagOf(op) :
                  (ab.req.p[k] # None) <=> (Places(h, FlagOf(op)[k]) # {})

\* list_prs was built twice with all four filters given
C19_Witness ==
    /\ Built /\ ab.built = 2
    /\ ab.req.op = "list_prs"
    /\ \A k \in DOMAIN ab.req.p : ab.req.p[k] # None
    /\ SubSeq(ab.again, 5, 9) =
          << <<"--state=", "open">>, <<"--limit">>, <<"5">>,
             <<"--base=", "main">>, <<"--head=", "feature">> >>

\* list_commits was built with the path and the limit only
C19_WitnessQuery ==
    /\ Built
    /\ ab.req.op = "list_commits"
    /\ ab.args[2] = <<"repos/", Owner, "/", Repo, "/commits", "?",
                      "path=", "src", "&", "per_page=", "5">>

\* C20: GhClient::api builds "api", then "-X" and the method only when a
\* method is given, then the endpoint, then one pair "-f", "key=value" per
\* field in the order supplied; with no method and no fields the vector is
\* exactly "api", endpoint.  The vector goes to run with the same account.
C20_ApiArguments ==
    (ab.kind = "api" /\ ab.built = 1) =>
        LET a == ab.invocation.args
            m == ab.req.method
            f == IF ab.req.fields = None THEN <<>> ELSE ab.req.fields[1]
            off == IF m = None THEN 1 ELSE 3
        IN  /\ ab.invocation.account = ab.req.account
            /\ Len(a) = off + 1 + 2 * Len(f)
            /\ a[1] = <<"api">>
            /\ m # None => a[2] = <<"-X">> /\ a[3] = m
            /\ a[off + 1] = ab.req.endpoint
            /\ \A i \in 1..Len(f) :
                  /\ a[off + 2 * i] = <<"-f">>
                  /\ a[off + 2 * i + 1] = f[i][1] \o <<"=">> \o f[i][2]
            /\ (m = None /\ f = <<>>) => a = << <<"api">>, ab.req.endpoint >>

\* api was called with a method and two fields
C20_Witness ==
    /\ ab.kind = "api" /\ ab.built = 1
    /\ ab.req.method = Some("POST")
    /\ ab.req.account = Some("work")
    /\ ab.req.fields # None /\ Len(ab.req.fields[1]) = 2
    /\ ab.req.fields[1][1] # ab.req.fields[1][2]
    /\ Len(ab.invocation.args) = 8

\* api was called with neither a method nor fields
C20_WitnessBare ==
    /\ ab.kind = "api" /\ ab.built = 1
    /\ ab.req.method = None /\ ab.req.fields = None
    /\ ab.invocation.args = << <<"api">>, <<"user">> >>

(***************************************************************************)
(* The deletion handlers, called one at a time by one client               *)
(***************************************************************************)
DeletionOps ==
    {"delete_branch", "delete_tag", "delete_branch_protection", "delete_release"}

DeletionRequests ==
    { [op |-> o, account |-> a, arg |-> None] :
         o \in DeletionOps, a \in {None, Some("home"), Some("missing")} }
    \cup
    { [op |-> "delete_release", account |-> None, arg |-> Some(TRUE)] }

NextOps ==
    \/ run_serve
    \/ \E req \in DeletionRequests : Start(1, req)
    \/ RunResolve(1)
    \/ RunSpawn(1)
    \/ RunSpawnFail(1)
    \/ \E out \in GhOutcomes : RunExit(1, out)
    \/ RunWaitFail(1)
    \/ \E p \in FsPaths : \E f \in OperatorFiles(p) : OperatorSets(p, f)

SpecOps == Init /\ [][NextOps]_vars

\* the name of the entity a deletion call removes
DeletedName(op) ==
    IF op \in {"delete_tag", "delete_release"} THEN TagName ELSE BranchName

\* C21 as stated: every deletion operation whose invocation succeeds returns
\* a plain-text confirmation that contains the name of the deleted branch or
\* tag, not the structured output of the tool.
C21_DeletionConfirms ==
    \A c \in Clients :
        (calls[c].op \in DeletionOps /\ calls[c].pc = "done"
            /\ calls[c].last[1].ok) =>
            /\ calls[c].resp.shape = "success"
            /\ calls[c].resp.kind = "text"
            /\ Contains(calls[c].resp.text, <<DeletedName(calls[c].op)>>)

(***************************************************************************)
(* get_file: the handler's code after its invocation returned, for every   *)
(* result of the contents endpoint within the bounds                       *)
(***************************************************************************)
MaxFileLen == 4     \* longest file enumerated (bytes)

\* "h", the two bytes of U+00E9, and a byte that no UTF-8 text contains
FileBytes == {104, 195, 169, 255}

RECURSIVE BytesUpTo(_)
BytesUpTo(n) ==
    IF n = 0 THEN {<<>>}
    ELSE BytesUpTo(n - 1)
         \cup {Append(b, x) : b \in {y \in BytesUpTo(n - 1) : Len(y) = n - 1},
                              x \in FileBytes}

\* what the contents endpoint does to the bytes of a file: RFC 4648 base64
RECURSIVE encode(_)
encode(bytes) ==
    LET sym(n) == Alphabet[n + 1] IN
    IF bytes = <<>> THEN <<>>
    ELSE IF Len(bytes) = 1
    THEN <<sym(bytes[1] \div 4), sym((bytes[1] % 4) * 16), "=", "=">>
    ELSE IF Len(bytes) = 2
    THEN <<sym(bytes[1] \div 4),
           sym((bytes[1] % 4) * 16 + bytes[2] \div 16),
           sym((bytes[2] % 16) * 4), "=">>
    ELSE <<sym(bytes[1] \div 4),
           sym((bytes[1] % 4) * 16 + bytes[2] \div 16),
           sym((bytes[2] % 16) * 4 + bytes[3] \div 64),
           sym(bytes[3] % 64)>> \o encode(SubSeq(bytes, 4, Len(bytes)))

\* the forms in which a content string arrives: as encoded, wrapped with
\* line feeds, wrapped with CR LF, without its padding, followed by a
\* character outside the alphabet, and with a non-canonical last symbol
ContentForms ==
    {"plain", "lf_end", "lf_inside", "crlf", "unpadded", "junk", "last_symbol"}

Form(c, form) ==
    CASE form = "plain" -> c
      [] form = "lf_end" -> c \o <<"\n">>
      [] form = "lf_inside" ->
            IF Len(c) < 2 THEN <<"\n">> \o c
            ELSE SubSeq(c, 1, 2) \o <<"\n">> \o SubSeq(c, 3, Len(c))
      [] form = "crlf" -> c \o <<"\r", "\n">>
      [] form = "unpadded" -> SelectSeq(c, LAMBDA ch : ch # "=")
      [] form = "junk" -> c \o <<"!">>
      [] form = "last_symbol" ->
            IF c # <<>> /\ c[Len(c)] = "="
            THEN LET k == IF c[Len(c) - 1] = "=" THEN Len(c) - 2 ELSE Len(c) - 1 IN
                 [c EXCEPT ![k] = Alphabet[Sextet(c[k]) + 2]]
            ELSE c

\* the call of get_file whose invocation is about to return
FileCall ==
    [IdleCall EXCEPT !.pc = "wait", !.op = "get_file", !.step = "final",
                     !.spawned = 1]

\* results without a content string (a null content, a directory listing,
\* an empty body) and a failed invocation
OtherFileResults ==
    <<Ok(JObj([content |-> JNull])), Ok(JObj([name |-> JNull])),
      Ok(JArr(<<>>)), Ok(JNull), Err("GhCli", <<"boom">>)>>

InitFile ==
    /\ config = MainConfig
    /\ fs = StartupFs
    /\ q = NoProbe
    /\ gw = NoGw
    /\ calls = NoCalls
    /\ installed = TRUE
    /\ gh = Some(new(config, installed))
    /\ ab = NoBuild
    /\ env = ParentEnv
    /\ \/ \E b \in BytesUpTo(MaxFileLen), form \in ContentForms :
             probe = [kind |-> "get_file", returned |-> FALSE, call |-> FileCall,
                      origin |-> Some(b),
                      result |-> Ok(JObj([content |-> JStr(Form(encode(b), form)),
                                          encoding |-> JStr("base64")]))]
       \/ \E i \in 1..Len(OtherFileResults) :
             probe = [kind |-> "get_file", returned |-> FALSE, call |-> FileCall,
                      origin |-> None, result |-> OtherFileResults[i]]

\* the invocation of get_file returns and the handler builds its response
get_file_returns ==
    /\ probe.kind = "get_file"
    /\ ~probe.returned
    /\ probe' = [probe EXCEPT !.returned = TRUE,
                              !.call = Handle(probe.call, probe.result)]
    /\ UNCHANGED <<config, fs, q, gw, calls, installed, gh, ab, env>>

NextFile == get_file_returns

SpecFile == InitFile /\ [][NextFile]_vars

\* a byte sequence made of one-byte and two-byte UTF-8 forms only, stated
\* position by position
WellFormed(b) ==
    \A i \in 1..Len(b) :
        \/ b[i] <= 127
        \/ b[i] \in 194..223 /\ i < Len(b) /\ b[i + 1] \in 128..191
        \/ b[i] \in 128..191 /\ i > 1 /\ b[i - 1] \in 194..223

\* the content string of the probed result without its line feeds
Stripped ==
    LET c == probe.result.val.v["content"].v IN
    [i \in 1..Cardinality({j \in 1..Len(c) : c[j] # "\n"}) |->
        c[CHOOSE j \in 1..Len(c) :
             /\ c[j] # "\n"
             /\ Cardinality({k \in 1..j : c[k] # "\n"}) = i]]

\* the content is the base64 text of a file whose bytes are UTF-8 text
Decodable ==
    /\ probe.origin # None
    /\ encode(probe.origin[1]) = Stripped
    /\ WellFormed(probe.origin[1])

\* C22: get_file returns the decoded text if and only if the result has a
\* string "content" that, line feeds removed, is valid base64 of valid
\* UTF-8; in every other case it returns the structured result unchanged,
\* and a result that is not an error never gives an error response.
C22_DecodedOrEnvelope ==
    (probe.kind = "get_file" /\ probe.returned /\ probe.result.ok) =>
        /\ probe.call.pc = "done"
        /\ probe.call.resp.shape = "success"
        /\ Decodable => probe.call.resp = SuccessText(probe.origin[1])
        /\ ~Decodable => probe.call.resp = SuccessJson(probe.result.val)

\* a file of "h" and U+00E9 arrived wrapped and was returned as text
C22_Witness ==
    /\ probe.kind = "get_file" /\ probe.returned
    /\ probe.result.ok /\ probe.origin = Some(<<104, 195, 169, 104>>)
    /\ probe.result.val.v["content"].v =
          <<"a", "M", "\n", "O", "p", "a", "A", "=", "=">>
    /\ probe.call.resp = SuccessText(<<104, 195, 169, 104>>)

\* a file that is not UTF-8 text was returned as the structured result
C22_WitnessBinary ==
    /\ probe.kind = "get_file" /\ probe.returned
    /\ probe.origin = Some(<<255>>)
    /\ probe.result.val.v["content"].v = <<"/", "w", "=", "=">>
    /\ probe.call.resp = SuccessJson(probe.result.val)

\* a content string with a non-canonical last symbol was returned as the
\* structured result
C22_WitnessInvalid ==
    /\ probe.kind = "get_file" /\ probe.returned
    /\ probe.origin = Some(<<104>>)
    /\ probe.result.val.v["content"].v = <<"a", "B", "=", "=">>
    /\ probe.call.resp = SuccessJson(probe.result.val)

(***************************************************************************)
(* Secrets and shared state                                                *)
(***************************************************************************)
\* the chunks of the token files that are not whitespace
Secrets ==
    UNION {{f.content[i] : i \in 1..Len(f.content)} :
              f \in {g \in UNION {OperatorFiles(p) : p \in FsPaths} : g.exists}}
        \ {" ", "\t", "\n", "\r"}

SecretFree(text) == \A i \in 1..Len(text) : text[i] \notin Secrets

\* two calls with the same request
SameRequest(c, d) ==
    /\ calls[c].op = calls[d].op
    /\ calls[c].account = calls[d].account
    /\ calls[c].arg = calls[d].arg

\* C23: no response depends on the secret value: two calls with the same
\* request whose processes were given different tokens and ended with the
\* same exit status, stdout and stderr return the same response, and no
\* error message or response text contains a token.
C23_ResponseIndependentOfToken ==
    /\ \A c \in Clients :
          /\ SecretFree(calls[c].resp.text)
          /\ (calls[c].last # None /\ ~calls[c].last[1].ok) =>
                SecretFree(calls[c].last[1].arg)
    /\ \A c, d \in Clients :
          (/\ SameRequest(c, d)
           /\ calls[c].pc = "done" /\ calls[d].pc = "done"
           /\ calls[c].step = calls[d].step
           /\ calls[c].out # None /\ calls[c].out = calls[d].out
           /\ calls[c].proc.GH_TOKEN # calls[d].proc.GH_TOKEN) =>
              /\ calls[c].resp = calls[d].resp
              /\ calls[c].last = calls[d].last

\* two get_me calls for the same account ran with the old and the rotated
\* token; gh failed alike for both and both returned the same error
C23_Witness ==
    /\ SameRequest(1, 2)
    /\ calls[1].pc = "done" /\ calls[2].pc = "done"
    /\ calls[1].proc.GH_TOKEN = <<"ghp_abcdef">>
    /\ calls[2].proc.GH_TOKEN = <<"ghp_rotated">>
    /\ calls[1].out # None /\ calls[1].out = calls[2].out
    /\ calls[1].out[1].status = 1
    /\ calls[1].resp.shape = "error" /\ calls[1].resp = calls[2].resp

\* C24: no call changes shared state: once the client is built the
\* configuration and the client stay the same, the environment of the
\* server process never changes (the token goes into the child's
\* environment only), a step of one call leaves the other call as it was,
\* and two calls with the same request, the same token and the same process
\* outcome return the same response whatever was interleaved with them.
C24_NoSharedState ==
    /\ [](/\ config = MainConfig
          /\ env = ParentEnv
          /\ Serving => gh[1].val.config = config
          /\ \A c, d \in Clients :
                (/\ SameRequest(c, d)
                 /\ calls[c].pc = "done" /\ calls[d].pc = "done"
                 /\ calls[c].step = calls[d].step
                 /\ calls[c].out = calls[d].out
                 /\ calls[c].out # None \/ calls[c].last = calls[d].last
                 /\ calls[c].proc.GH_TOKEN = calls[d].proc.GH_TOKEN) =>
                    /\ calls[c].resp = calls[d].resp
                    /\ calls[c].last = calls[d].last)
    /\ [][/\ gh # None => gh' = gh
          /\ \A c, d \in Clients :
                c # d => calls'[c] = calls[c] \/ calls'[d] = calls[d]
          /\ calls' # calls => fs' = fs
      ]_vars

\* a process runs with an injected token while the server's environment
\* holds none, and the other call has already returned
C24_Witness ==
    \E c, d \in Clients :
        /\ calls[c].pc = "wait" /\ calls[c].proc.alive
        /\ calls[c].proc.GH_TOKEN # <<>>
        /\ env.GH_TOKEN = None
        /\ calls[d].pc = "done" /\ calls[d].spawned = 1

(***************************************************************************)
(* Calls and the processes they wait for                                   *)
(***************************************************************************)
\* the calls whose progress is followed: client 1 creates a branch (a
\* lookup, then the POST), client 2 asks for the authenticated user
LiveRequests(c) ==
    IF c = 1
    THEN { [op |-> "create_branch", account |-> a, arg |-> None] :
              a \in {None, Some("missing")} }
    ELSE { [op |-> "get_me", account |-> a, arg |-> None] :
              a \in {Some("home")} }

\* the steps of run that the runtime takes as soon as the task is polled
HandlerStep(c) == RunResolve(c) \/ RunSpawn(c) \/ RunSpawnFail(c)

\* the process a call waits for ends.  Every ending of the process disables
\* this action, so fairness on one ending says no more than that the
\* process does not run forever; the other endings stay steps of NextLive.
Killed == [status |-> 1, stdout |-> <<>>, stderr |-> <<"boom", "\n">>]
ProcessEnds(c) == RunExit(c, Killed) \/ RunWaitFail(c)

\* how the processes of these calls end: with an object printed, or failing
LiveOutcomes ==
    { [status |-> 0, stdout |-> RefJson, stderr |-> <<>>],
      [status |-> 0, stdout |-> RepoJson, stderr |-> <<>>],
      Killed }

NextLive ==
    \/ run_serve
    \/ \E c \in Clients : \E req \in LiveRequests(c) : Start(c, req)
    \/ \E c \in Clients : RunResolve(c)
    \/ \E c \in Clients : RunSpawn(c)
    \/ \E c \in Clients : RunSpawnFail(c)
    \/ \E c \in Clients : \E out \in LiveOutcomes : RunExit(c, out)
    \/ \E c \in Clients : RunWaitFail(c)

\* where a call stands: every step of a call changes it
Pos(c) == <<calls[c].pc, calls[c].step, calls[c].spawned>>

\* every task is polled when it can go on; the processes of client 2 end,
\* those of client 1 may run forever
SpecLive ==
    /\ Init
    /\ [][NextLive]_vars
    /\ \A c \in Clients : WF_Pos(c)(HandlerStep(c))
    /\ WF_Pos(2)(ProcessEnds(2))

Started(c) == calls[c].pc # "idle"
Returned(c) == calls[c].pc = "done"

C25_WitnessReturned ==
    /\ Returned(1) /\ calls[1].spawned = 2 /\ ~calls[1].proc.alive
    /\ calls[1].resp.shape # "none"

(***************************************************************************)
(* Configuration loading (Config::load): the candidate files in every      *)
(* state, loaded once, then one resolution under the loaded configuration  *)
(***************************************************************************)
ProjectName == "multi-account-github-mcp"
ConfigDir == "/home/op/.config"
ExplicitPath == <<"/srv/mcp.yml">>
PrimaryPath == <<ConfigDir, "/", ProjectName, "/", ProjectName, ".yml">>
FallbackPath == <<ProjectName, ".yml">>
ConfigPaths == {ExplicitPath, PrimaryPath, FallbackPath}

\* serde_yaml::from_str::<Config> over a document given line by line:
\* default_account falls back to "default" (serde default), accounts is
\* required, a line that is no mapping entry is a syntax error
from_yaml(lines) ==
    LET RECURSIVE read(_, _, _)
        read(i, dflt, accts) ==
            IF i > Len(lines)
            THEN IF accts = None
                 THEN Err("YamlParse", <<"missing field accounts">>)
                 ELSE Ok([default_account |-> unwrap_or(dflt, "default"),
                          accounts |-> accts[1]])
            ELSE CASE lines[i] = "default_account: work" ->
                        read(i + 1, Some("work"), accts)
                   [] lines[i] = "default_account: home" ->
                        read(i + 1, Some("home"), accts)
                   [] lines[i] = "accounts:" /\ accts = None ->
                        read(i + 1, dflt, Some(<<>>))
                   [] lines[i] = "  work: ~/tokens/work" /\ accts # None ->
                        read(i + 1, dflt, Some(("work" :> WorkPath) @@ accts[1]))
                   [] lines[i] = "  home: /etc/tokens/home" /\ accts # None ->
                        read(i + 1, dflt, Some(("home" :> HomePath) @@ accts[1]))
                   [] OTHER ->
                        Err("YamlParse", <<"did not find expected key at line ", lines[i]>>)
    IN  read(1, None, None)

\* Config::load_from_file
load_from_file(files, path) ==
    IF ~files[path].exists
    THEN Err("Config", <<"Failed to read config file ">> \o path
                         \o <<": ", "No such file or directory">>)
    ELSE IF ~files[path].readable
    THEN Err("Config", <<"Failed to read config file ">> \o path
                         \o <<": ", "Permission denied">>)
    ELSE from_yaml(files[path].content)

\* faulty variant: a candidate that exists but does not load is a hard error
load_strict(files, config_path, config_dir) ==
    IF config_path # None THEN load_from_file(files, config_path[1])
    ELSE IF config_dir # None /\ files[PrimaryPath].exists
    THEN load_from_file(files, PrimaryPath)
    ELSE IF files[FallbackPath].exists
    THEN load_from_file(files, FallbackPath)
    ELSE Ok(DefaultConfig)

\* Config::load
load(files, config_path, config_dir) ==
    IF config_path # None THEN load_from_file(files, config_path[1])
    ELSE IF /\ config_dir # None
            /\ files[PrimaryPath].exists
            /\ load_from_file(files, PrimaryPath).ok
    THEN load_from_file(files, PrimaryPath)
    ELSE IF /\ files[FallbackPath].exists
            /\ load_from_file(files, FallbackPath).ok
    THEN load_from_file(files, FallbackPath)
    ELSE Ok(DefaultConfig)

\* what a candidate file may hold
ConfigDocs ==
    { <<"default_account: work", "accounts:", "  work: ~/tokens/work">>,
      <<"accounts:", "  home: /etc/tokens/home">>,
      <<"default_account: home">>,
      <<"accounts:", "- work">> }
ConfigFiles == FileStates(ConfigDocs)

\* the command line (--config given or not), the configuration
\* directory (known or not) and the candidate files
InitLoad ==
    /\ config = DefaultConfig
    /\ fs = StartupFs
    /\ q = NoProbe
    /\ gw = NoGw
    /\ calls = NoCalls
    /\ installed = TRUE
    /\ gh = None
    /\ ab = NoBuild
    /\ env = ParentEnv
    /\ \E files \in [ConfigPaths -> ConfigFiles] :
       \E config_path \in {None, Some(ExplicitPath)} :
       \E config_dir \in {None, Some(ConfigDir)} :
          probe = [kind |-> "main", files |-> files, config_path |-> config_path,
                   config_dir |-> config_dir, result |-> None,
                   account |-> None, token |-> None]

\* main: let config = Config::load(cli.config.as_ref())...?
Load ==
    /\ probe.kind = "main"
    /\ LET r == load(probe.files, probe.config_path, probe.config_dir) IN
       /\ probe' = [probe EXCEPT !.kind = "loaded", !.result = Some(r)]
       /\ config' = IF r.ok THEN r.val ELSE config
    /\ UNCHANGED <<fs, q, gw, calls, installed, gh, ab, env>>

\* a resolution under the loaded configuration
ResolveLoaded(account) ==
    /\ probe.kind = "loaded"
    /\ probe.result[1].ok
    /\ probe' = [probe EXCEPT !.kind = "resolved", !.account = Some(account),
                              !.token = Some(get_token(config, account, fs))]
    /\ UNCHANGED <<config, fs, q, gw, calls, installed, gh, ab, env>>

NextLoad ==
    \/ Load
    \/ \E account \in AccountArgs : ResolveLoaded(account)

SpecLoad == InitLoad /\ [][NextLoad]_vars

\* a candidate that exists, can be read and parses
Loads(f) == f.exists /\ f.readable /\ from_yaml(f.content).ok
Parsed(f) == from_yaml(f.content).val

\* C26: Config::load follows its fallback chain: an explicit path gives
\* exactly the outcome of loading that file and nothing else is tried;
\* otherwise the primary per-user file is used if it exists and loads, else
\* the file in the working directory if it exists and loads, a candidate
\* that exists but fails to load being skipped; if none loads the defaults
\* are used (default account "default", no accounts), under which every
\* resolution fails with AccountNotFound.
C26_FallbackChain ==
    probe.kind \in {"loaded", "resolved"} =>
       LET explicit == probe.files[ExplicitPath]
           primary == probe.files[PrimaryPath]
           fallback == probe.files[FallbackPath]
           r == probe.result[1]
           use_primary == probe.config_dir # None /\ Loads(primary)
           defaults == [default_account |-> "default", accounts |-> <<>>]
       IN  /\ probe.config_path # None =>
                /\ Loads(explicit) => r.ok /\ r.val = Parsed(explicit)
                /\ ~Loads(explicit) => ~r.ok
                /\ ~explicit.exists \/ ~explicit.readable => r.kind = "Config"
           /\ probe.config_path = None =>
                /\ r.ok
                /\ use_primary => r.val = Parsed(primary)
                /\ (~use_primary /\ Loads(fallback)) => r.val = Parsed(fallback)
                /\ (~use_primary /\ ~Loads(fallback)) => r.val = defaults
           /\ (probe.kind = "resolved" /\ r.ok /\ r.val = defaults) =>
                /\ ~probe.token[1].ok
                /\ probe.token[1].kind = "AccountNotFound"

\* no explicit path, the primary file exists but does not parse, and the
\* file in the working directory was loaded
C26_Witness ==
    /\ probe.kind = "loaded"
    /\ probe.config_path = None /\ probe.config_dir # None
    /\ probe.files[PrimaryPath].exists /\ ~Loads(probe.files[PrimaryPath])
    /\ Loads(probe.files[FallbackPath])
    /\ probe.result[1].ok
    /\ probe.result[1].val = Parsed(probe.files[FallbackPath])
    /\ probe.result[1].val.default_account = "default"

\* no candidate loads and a resolution under the defaults fails
C26_WitnessDefaults ==
    /\ probe.kind = "resolved"
    /\ probe.config_path = None
    /\ probe.files[PrimaryPath] = Unreadable
    /\ probe.files[FallbackPath] = NoFile
    /\ config = DefaultConfig
    /\ probe.account = Some(Some("default"))
    /\ probe.token[1] = Err("AccountNotFound", <<"default">>)

\* an explicit path that cannot be parsed is a hard error although the
\* primary file would load
C26_WitnessExplicit ==
    /\ probe.kind = "loaded"
    /\ probe.config_path # None
    /\ probe.files[ExplicitPath].exists /\ ~Loads(probe.files[ExplicitPath])
    /\ Loads(probe.files[PrimaryPath])
    /\ ~probe.result[1].ok

(***************************************************************************)
(* GhClient::version: gh --version run by a built client, with and without *)
(* token files and with every stdout within the bound                      *)
(***************************************************************************)
MaxVersionLen == 3
VersionChunks == {"gh version 2.40.0 (2023-12-07)", "\n", "\r", "x"}

\* str::lines().next(): the text before the first line feed, without the
\* carriage return that precedes that line feed; None for the empty text
RECURSIVE first_line(_)
first_line(s) ==
    IF s = <<>> THEN None
    ELSE IF Head(s) = "\n" THEN Some(<<>>)
    ELSE IF Head(s) = "\r" /\ Len(s) > 1 /\ s[2] = "\n" THEN Some(<<>>)
    ELSE LET rest == first_line(Tail(s)) IN
         Some(<<Head(s)>> \o (IF rest = None THEN <<>> ELSE rest[1]))

\* faulty variant: the account is resolved before gh is asked for its version
version_authenticated(client, fsys, status, stdout) ==
    LET r == get_token(client.config, None, fsys) IN
    IF ~r.ok THEN r
    ELSE IF ~success(status)
    THEN Err("GhCli", <<"Failed to get gh version">>)
    ELSE Ok(unwrap_or(first_line(stdout), <<"unknown">>))

\* GhClient::version from the process output on
version(client, fsys, status, stdout) ==
    IF ~success(status)
    THEN Err("GhCli", <<"Failed to get gh version">>)
    ELSE Ok(unwrap_or(first_line(stdout), <<"unknown">>))

\* the server may have been started with a GH_TOKEN of its own
InheritedEnvs == {ParentEnv, [GH_TOKEN |-> Some(<<"ghp_parent">>)]}

InitVersion ==
    /\ config \in {MainConfig, DefaultConfig}
    /\ fs \in {StartupFs, EmptyFs}
    /\ q = NoProbe
    /\ gw = NoGw
    /\ calls = NoCalls
    /\ installed = TRUE
    /\ gh = Some(new(config, installed))
    /\ ab = NoBuild
    /\ env \in InheritedEnvs
    /\ probe = [kind |-> "client", proc |-> NoProc, out |-> None,
                result |-> None]

\* Command::new("gh").args(["--version"])...spawn(): the child inherits the
\* environment of the server, nothing is added to it
VersionSpawn ==
    /\ probe.kind = "client"
    /\ probe' = [probe EXCEPT
          !.kind = "wait",
          !.proc = [alive |-> TRUE,
                    GH_TOKEN |-> IF env.GH_TOKEN = None THEN <<>> ELSE env.GH_TOKEN[1],
                    NO_COLOR |-> <<>>, args |-> <<Txt("--version")>>]]
    /\ UNCHANGED <<config, fs, q, gw, calls, installed, gh, ab, env>>

VersionSpawnFail ==
    /\ probe.kind = "client"
    /\ probe' = [probe EXCEPT
          !.kind = "returned",
          !.result = Some(Err("GhCli", <<"Failed to spawn gh: ", "os error">>))]
    /\ UNCHANGED <<config, fs, q, gw, calls, installed, gh, ab, env>>

VersionExit(status, stdout) ==
    /\ probe.kind = "wait"
    /\ probe' = [probe EXCEPT
          !.kind = "returned", !.proc.alive = FALSE,
          !.out = Some([status |-> status, stdout |-> stdout]),
          !.result = Some(version(gh[1].val, fs, status, stdout))]
    /\ UNCHANGED <<config, fs, q, gw, calls, installed, gh, ab, env>>

VersionWaitFail ==
    /\ probe.kind = "wait"
    /\ probe' = [probe EXCEPT
          !.kind = "returned", !.proc.alive = FALSE,
          !.result = Some(Err("GhCli", <<"Failed to wait for gh: ", "os error">>))]
    /\ UNCHANGED <<config, fs, q, gw, calls, installed, gh, ab, env>>

NextVersion ==
    \/ VersionSpawn
    \/ VersionSpawnFail
    \/ \E status \in ExitCodes :
       \E stdout \in TextsUpTo(VersionChunks, MaxVersionLen) :
          VersionExit(status, stdout)
    \/ VersionWaitFail

SpecVersion == InitVersion /\ [][NextVersion]_vars

\* line is the first line of text: text is the line alone, or the line
\* followed by a line feed or by a carriage return and a line feed
IsFirstLineOf(line, text) ==
    /\ \A i \in 1..Len(line) : line[i] # "\n"
    /\ \/ text = line /\ text # <<>>
       \/ /\ Len(text) > Len(line)
          /\ line = <<>> \/ line[Len(line)] # "\r"
          /\ SubSeq(text, 1, Len(line)) = line
          /\ text[Len(line) + 1] = "\n"
       \/ /\ Len(text) > Len(line) + 1
          /\ SubSeq(text, 1, Len(line)) = line
          /\ text[Len(line) + 1] = "\r" /\ text[Len(line) + 2] = "\n"

\* C27: version is independent of credentials: the process is spawned
\* without resolving an account and with no token added to its environment,
\* so it succeeds whenever gh exits successfully, token files or not; it
\* returns the first line of stdout, "unknown" when stdout has no line, and
\* a gh CLI error when gh exits non-zero.
C27_VersionNeedsNoCredentials ==
    /\ probe.proc.args # <<>> =>
          /\ probe.proc.args = <<Txt("--version")>>
          /\ probe.proc.NO_COLOR = <<>>
          /\ probe.proc.GH_TOKEN =
                (IF env.GH_TOKEN = None THEN <<>> ELSE env.GH_TOKEN[1])
    /\ probe.out # None =>
          LET o == probe.out[1]
              r == probe.result[1]
          IN  /\ r.ok <=> o.status = 0
              /\ r.ok =>
                   IF o.stdout = <<>>
                   THEN r.val = <<"unknown">>
                   ELSE IsFirstLineOf(r.val, o.stdout)
              /\ ~r.ok => r = Err("GhCli", <<"Failed to get gh version">>)

\* no account and no token file anywhere, and version returns the first of
\* the two lines gh printed
C27_Witness ==
    /\ probe.kind = "returned"
    /\ config = DefaultConfig /\ fs = EmptyFs /\ env = ParentEnv
    /\ probe.proc.GH_TOKEN = <<>>
    /\ probe.out = Some([status |-> 0,
                         stdout |-> <<"gh version 2.40.0 (2023-12-07)", "\n", "x">>])
    /\ probe.result = Some(Ok(<<"gh version 2.40.0 (2023-12-07)">>))

\* gh exits successfully without printing anything
C27_WitnessUnknown ==
    /\ probe.kind = "returned"
    /\ probe.out = Some([status |-> 0, stdout |-> <<>>])
    /\ probe.result = Some(Ok(<<"unknown">>))

\* gh exits non-zero although the account's token file is in place
C27_WitnessFailure ==
    /\ probe.kind = "returned"
    /\ config = MainConfig /\ fs = StartupFs
    /\ probe.out # None /\ probe.out[1].status = 1
    /\ probe.result = Some(Err("GhCli", <<"Failed to get gh version">>))

C28_WitnessAbsent ==
    /\ ab.kind = "protection" /\ ab.built = 1
    /\ ab.target.enforce_admins = None
    /\ ab.args[8] = <<"enforce_admins=", "false">>

(***************************************************************************)
(* The invocations of one call                                             *)
(***************************************************************************)
IsPost(args) == Len(args) >= 3 /\ args[2] = <<"-X">> /\ args[3] = <<"POST">>

\* C29: in create_branch and create_tag the credential is resolved afresh
\* for every invocation: each invocation starts with no token in hand, its
\* resolve step reads the token file as it is at that moment, and its
\* process is given the token that step read, whatever token an earlier
\* process of the call was given; a create_branch whose lookup did not
\* succeed goes on to the mutating invocation with the literal source.
C29_ResolvedPerInvocation ==
    /\ [](\A c \in Clients :
            /\ calls[c].pc = "resolve" => calls[c].token = <<>>
            /\ (calls[c].op = "create_branch" /\ calls[c].step = "final"
                   /\ calls[c].proc.alive) =>
                  /\ IsPost(calls[c].proc.args)
                  /\ calls[c].spawned = 1 =>
                        calls[c].proc.args[8] = <<"sha=", source(calls[c])>>)
    /\ [][\A c \in Clients :
            /\ (Resolves(c) /\ Resolvable(calls[c])) =>
                  /\ calls'[c].pc = "spawn"
                  /\ IsTrimOf(calls'[c].token, OwnFile(calls[c]).content)
            /\ (Resolves(c) /\ ~Resolvable(calls[c])) =>
                  /\ calls'[c].spawned = calls[c].spawned
                  /\ calls'[c].pc # "spawn"
            /\ Spawns(c) =>
                  /\ calls[c].pc = "spawn"
                  /\ calls'[c].proc.GH_TOKEN = calls[c].token
      ]_vars

\* the token file was rotated after the lookup of a create_branch call: the
\* lookup ran with the old token and the POST is about to be spawned with
\* the new one
C29_Witness ==
    /\ calls[1].op = "create_branch"
    /\ calls[1].step = "final" /\ calls[1].pc = "spawn"
    /\ calls[1].spawned = 1
    /\ calls[1].proc.GH_TOKEN = <<"ghp_abcdef">>
    /\ calls[1].token = <<"ghp_rotated">>

\* the two processes of a create_tag call were given different tokens
C29_WitnessTag ==
    /\ calls[1].op = "create_tag" /\ calls[1].arg = None
    /\ calls[1].step = "ref_info" /\ calls[1].pc = "spawn"
    /\ calls[1].proc.GH_TOKEN = <<"ghp_rotated">>
    /\ calls[1].token = <<"ghp_abcdef">>

\* the lookup of a create_branch call never ran (the token file was gone),
\* the file came back, and the POST runs with the literal source
C29_WitnessRecovered ==
    /\ calls[1].op = "create_branch" /\ calls[1].arg = Some("develop")
    /\ calls[1].step = "final" /\ calls[1].pc = "wait"
    /\ calls[1].spawned = 1 /\ calls[1].proc.alive
    /\ IsPost(calls[1].proc.args)
    /\ calls[1].proc.args[8] = <<"sha=", "develop">>

C30_WitnessSha ==
    /\ calls[1].op = "create_tag" /\ calls[1].arg = Some("abc123")
    /\ calls[1].pc = "wait" /\ calls[1].spawned = 1
    /\ IsPost(calls[1].proc.args)
====
